---------------------------- MODULE Spec2Model ----------------------------
(***************************************************************************)
(* Placement / connectivity engine of the jigsaw-puzzle game.              *)
(*                                                                         *)
(* The repository holds several variants of the same game.  The            *)
(* neighbour-snap variants modelled here are                               *)
(*   "canvas" : PuzzleTriangle of src/unnamed/part_002 (mouse handlers on   *)
(*              the canvas element; PuzzleRandomShapes of part_003 has the  *)
(*              same handlers with the move body deferred to an animation   *)
(*              frame),                                                     *)
(*   "doc"    : src/src/app/puzzle-random/page.tsx (document listeners),    *)
(*   "dnd"    : src/src/app/puzzle-triangle/page.tsx (dnd-kit callbacks).   *)
(*                                                                         *)
(* React state is modelled by the variables poolItems, placedPieces,       *)
(* dragState, activeId, dragSource and isSolved.  Handlers are closures     *)
(* created at render time: what a handler reads directly (placedPieces,     *)
(* dragState, ...) is the value of the last render, kept in `view`, while   *)
(* functional updaters (setX(prev => ...)) read the current state.          *)
(* Discrete events (mousedown, mouseup, click, dnd callbacks) are rendered  *)
(* synchronously when the handler returns; updates made by move events and  *)
(* animation-frame callbacks are rendered later, by the Render action.      *)
(*                                                                         *)
(* The exact-slot variants (PuzzleJigsaw of puzzleGame-berhasil(-2).tsx,    *)
(* the timed PuzzleGame of part_007, the store-backed PuzzleContainer of    *)
(* loadingPuzzle.tsx) are specified by SpecSlot, and the lookup from a      *)
(* requested piece count to a grid by SpecConfig.  snapThreshold is a prop  *)
(* of the components; the model mounts all of them with 20.                 *)
(*                                                                         *)
(* The variable `pointer` is the environment: whether the mouse button or  *)
(* touch is down, whether it is over the board, and on which piece it went *)
(* down.  It lets the model say which physical events reach a handler: a   *)
(* release off the canvas of part_002 reaches none, and neither does a     *)
(* touchcancel in puzzle-random nor a cancelled dnd-kit drag.              *)
(*                                                                         *)
(* Further specifications:                                                 *)
(*   SpecPartition : the triangle partitions (diagonal, fan, varied) and   *)
(*                   setupNeighbors of the four triangle components, in    *)
(*                   units of 1/60 pixel;                                   *)
(*   SpecTabs      : generateTabPattern, generatePuzzlePath and splitImage *)
(*                   of puzzleGame-berhasil.tsx, in units of 1/1000 pixel; *)
(*   SpecVoronoi   : the drag handlers of PuzzleRandomShapes of part_005,  *)
(*                   whose placed entries carry isLocked and no group;     *)
(*   SpecStore     : usePuzzleStore of part_007 driven through its own     *)
(*                   actions (setLevel, clearLevel, movePiece,             *)
(*                   incrementAttempts, checkCompletion), with its score;  *)
(*   SpecResolve   : setupNeighbors on polygons whose vertices are off by  *)
(*                   up to 0.05 pixel;                                      *)
(*   SpecTimed     : the countdown (timeRemaining, isGameOver) of          *)
(*                   PuzzleGame of part_007 and of puzzle-triangle next to *)
(*                   their drag handlers.  The other specifications leave  *)
(*                   the countdown out.                                    *)
(*                                                                         *)
(* puzzle-random, puzzle-triangle and PuzzleGame render an overlay over    *)
(* the board once isSolved or isGameOver is set (overlayShown): the placed *)
(* pieces are under it, the pool is not.                                   *)
(***************************************************************************)
EXTENDS Integers, Sequences, FiniteSets, TLC

VARIABLES
    variant,        \* which component is mounted
    pieces,         \* useState<Piece[]>: the pieces built on mount
    poolItems,      \* useState<string[]>: number of copies of each id in the pool array
    placedPieces,   \* useState<Map<string, PlacedPiece>>
    dragState,      \* useState<DragState | null> ("canvas", "doc")
    dragSourceRef,  \* useRef<'pool' | 'placed' | null> ("doc")
    active,         \* the draggable dnd-kit holds as active ("dnd")
    activeId,       \* useState<string | null> ("dnd")
    dragSource,     \* useState<'pool' | 'placed' | null> ("dnd")
    isSolved,       \* useState(false)
    gestures,       \* presses and double clicks so far
    view,           \* the state as of the last render (what handler closures hold)
    gridItems,      \* exact-slot variants: slot index -> piece id or ''
    mode,           \* exact-slot variants: the mode prop ('partial' or 'full')
    notice,         \* exact-slot variants: the last alert, toast or sound effect
    attempts,       \* store variant: the store's attempts counter
    isCompleted,    \* store variant: the store's isCompleted flag
    score,          \* store variant: the store's score
    pieceCount,     \* configuration lookup: the requested piece count
    config,         \* configuration lookup: what the lookup produced
    image,          \* the loaded image: img.width and img.height
    pointer,        \* the mouse button / touch: pressed or not, where, on which piece
    timeRemaining,  \* timed variants: useState(timeLimit), seconds left
    isGameOver      \* timed variants: useState(false), set when the countdown ends

exactSlotVars == <<gridItems, mode, notice, attempts, isCompleted, score>>
timerVars == <<timeRemaining, isGameOver>>
configVars == <<pieceCount, config, image>>
snapVars == <<placedPieces, dragState, dragSourceRef, dragSource, view, pointer>>

vars == <<variant, pieces, poolItems, placedPieces, dragState, dragSourceRef,
          active, activeId, dragSource, isSolved, gestures, view,
          gridItems, mode, notice, attempts, isCompleted, score, pieceCount, config, image,
          pointer, timeRemaining, isGameOver>>

Null == [null |-> TRUE]             \* a null dragState
NoSource == "null"                  \* a null dragSource / dragSourceRef
NoActive == {}                      \* a null activeId (else the singleton of the id)
NoEntry == [absent |-> TRUE]    \* Map.get(id) === undefined

Abs(n) == IF n < 0 THEN -n ELSE n

Pt(px, py) == [x |-> px, y |-> py]

-----------------------------------------------------------------------------
(* Bounds of the model *)

\* side of the square of board coordinates pieces may be moved in
MaxCoord == 45
\* copies of one id the pool array may hold
MaxCopies == 2
\* presses and double clicks in one run
MaxGestures == 5

-----------------------------------------------------------------------------
(* The puzzle: a 1 x 2 grid of cells, each cut into two triangles *)

rows == 1
cols == 2
imageWidth == 80
imageHeight == 40

cellWidth == imageWidth \div cols
cellHeight == imageHeight \div rows

NumPieces == rows * cols * 2
Pieces == 0 .. (NumPieces - 1)

pieceRow(p) == (p \div 2) \div cols
pieceCol(p) == (p \div 2) % cols
triangleIndex(p) == p % 2

topLeft(r, c) == Pt(c * cellWidth, r * cellHeight)
topRight(r, c) == Pt((c + 1) * cellWidth, r * cellHeight)
bottomLeft(r, c) == Pt(c * cellWidth, (r + 1) * cellHeight)
bottomRight(r, c) == Pt((c + 1) * cellWidth, (r + 1) * cellHeight)

\* createTrianglePuzzle: the two triangles of a cell, by the cell's diagonal
polygon(p) ==
    LET r == pieceRow(p)
        c == pieceCol(p)
        diagonalType == (r + c) % 2
    IN  IF diagonalType = 0
        THEN IF triangleIndex(p) = 0
             THEN <<topLeft(r, c), topRight(r, c), bottomRight(r, c)>>
             ELSE <<topLeft(r, c), bottomRight(r, c), bottomLeft(r, c)>>
        ELSE IF triangleIndex(p) = 0
             THEN <<topLeft(r, c), topRight(r, c), bottomLeft(r, c)>>
             ELSE <<topRight(r, c), bottomRight(r, c), bottomLeft(r, c)>>

SetMin(S) == CHOOSE m \in S : \A n \in S : m <= n
SetMax(S) == CHOOSE m \in S : \A n \in S : m >= n

getPolygonBounds(poly) ==
    LET xs == {poly[i].x : i \in DOMAIN poly}
        ys == {poly[i].y : i \in DOMAIN poly}
    IN  [minX |-> SetMin(xs), minY |-> SetMin(ys),
         maxX |-> SetMax(xs), maxY |-> SetMax(ys),
         width |-> SetMax(xs) - SetMin(xs), height |-> SetMax(ys) - SetMin(ys)]

\* puzzle-random: piecesCount 4 is a 1 x 1 grid, its cell fan-split into 4 triangles
fanRows == 1
fanCols == 1
fanCellWidth == imageWidth \div fanCols
fanCellHeight == imageHeight \div fanRows
fanRow(p) == (p \div 4) \div fanCols
fanCol(p) == (p \div 4) % fanCols
fanIndex(p) == p % 4

\* generateTrianglePattern: the interior point, in hundredths of the cell
patternType(r, c) == (r * 7 + c * 13) % 6
cx(t) == CASE t = 0 -> 50 [] t = 1 -> 30 [] t = 2 -> 70 [] t = 3 -> 30 [] t = 4 -> 70 [] OTHER -> 40
cy(t) == CASE t = 0 -> 50 [] t = 1 -> 35 [] t = 2 -> 30 [] t = 3 -> 70 [] t = 4 -> 65 [] OTHER -> 60

generateTrianglePattern(r, c) ==
    LET tl == Pt(c * fanCellWidth, r * fanCellHeight)
        tr == Pt((c + 1) * fanCellWidth, r * fanCellHeight)
        bl == Pt(c * fanCellWidth, (r + 1) * fanCellHeight)
        br == Pt((c + 1) * fanCellWidth, (r + 1) * fanCellHeight)
        interior == Pt(tl.x + (fanCellWidth * cx(patternType(r, c))) \div 100,
                       tl.y + (fanCellHeight * cy(patternType(r, c))) \div 100)
    IN  << <<tl, tr, interior>>, <<tr, br, interior>>,
           <<br, bl, interior>>, <<bl, tl, interior>> >>

fanPolygon(p) == generateTrianglePattern(fanRow(p), fanCol(p))[fanIndex(p) + 1]

\* the polygon of piece p in the puzzle variant v builds
polygonOf(v, p) == IF v = "doc" THEN fanPolygon(p) ELSE polygon(p)

\* createTrianglePiece: correctPosition is the origin of the bounding box
correctPositionOf(v, p) ==
    LET b == getPolygonBounds(polygonOf(v, p)) IN Pt(b.minX, b.minY)

\* setupNeighbors (part_002, puzzle-triangle): the vertices of piece p that coincide
\* (|d| < 0.1) with a vertex of q
sharedPoints(p, q) ==
    {i \in DOMAIN polygon(p) :
        \E j \in DOMAIN polygon(q) :
            /\ 10 * Abs(polygon(p)[i].x - polygon(q)[j].x) < 1
            /\ 10 * Abs(polygon(p)[i].y - polygon(q)[j].y) < 1}

\* setupNeighbors (puzzle-random): the distinct vertices of p within tolerance 1.0 of
\* a vertex of q
fanSharedPoints(p, q) ==
    {fanPolygon(p)[i] : i \in {i \in DOMAIN fanPolygon(p) :
        \E j \in DOMAIN fanPolygon(q) :
            /\ Abs(fanPolygon(p)[i].x - fanPolygon(q)[j].x) < 1
            /\ Abs(fanPolygon(p)[i].y - fanPolygon(q)[j].y) < 1}}

\* setupNeighbors: Object.values(piece.neighbors) as a set of ids
neighborsOf(v, p) ==
    IF v = "doc"
    THEN {q \in Pieces : q # p /\ Cardinality(fanSharedPoints(IF p < q THEN p ELSE q,
                                                              IF p < q THEN q ELSE p)) >= 2}
    ELSE {q \in Pieces : q # p /\ Cardinality(sharedPoints(p, q)) = 2}

\* createTrianglePuzzle: the pieces array component v builds on mount
builtPieces(v) ==
    [p \in Pieces |-> [correctPosition |-> correctPositionOf(v, p),
                       neighbors |-> neighborsOf(v, p),
                       width |-> getPolygonBounds(polygonOf(v, p)).width,
                       height |-> getPolygonBounds(polygonOf(v, p)).height]]

\* piece.correctPosition, Object.values(piece.neighbors)
correctPosition(p) == pieces[p].correctPosition
neighbors(p) == pieces[p].neighbors

snapThreshold == 20

-----------------------------------------------------------------------------
(* Inputs *)

\* pointer positions, in board coordinates (canvas rect at the origin, scale 1)
Pointers ==
    CASE variant = "doc" -> {Pt(40, 20), Pt(62, 30), Pt(45, 45)}
      [] variant = "dnd" -> {Pt(20, 20), Pt(65, 20)}
      [] OTHER -> {Pt(0, 0), Pt(45, 0), Pt(45, 45)}
\* where on a placed piece the pointer goes down, relative to its position
GrabOffsets == {Pt(0, 0)}

\* the pointer is inside canvasRef.current.getBoundingClientRect()
InsideCanvas(pt) == /\ pt.x >= 0 /\ pt.x <= imageWidth
                    /\ pt.y >= 0 /\ pt.y <= imageHeight

InBoard(pt) == /\ pt.x >= 0 /\ pt.x <= MaxCoord
               /\ pt.y >= 0 /\ pt.y <= MaxCoord

-----------------------------------------------------------------------------
(* Helpers shared by the neighbour-snap variants *)

Origin == Pt(0, 0)

\* distance(p1, p2) squared; the code compares Math.sqrt of it
distance2(p1, p2) == (p1.x - p2.x) * (p1.x - p2.x) + (p1.y - p2.y) * (p1.y - p2.y)

IsPlaced(placed, id) == placed[id] # NoEntry

RECURSIVE bfs(_, _, _)
bfs(placed, queue, visited) ==
    IF queue = {} THEN visited
    ELSE LET seen == visited \cup queue
             next == UNION {IF IsPlaced(placed, c) THEN placed[c].connectedGroup ELSE {}
                            : c \in queue}
         IN  bfs(placed, next \ seen, seen)

\* getConnectedGroup: every id reached from pieceId through connectedGroup links
\* (an id that is listed but not placed is visited and contributes no links)
getConnectedGroup(placed, pieceId) == bfs(placed, {pieceId}, {})

\* neighbor.position + (piece.correctPosition - neighbor.correctPosition)
expectedPos(placed, p, n) ==
    Pt(placed[n].position.x + (correctPosition(p).x - correctPosition(n).x),
       placed[n].position.y + (correctPosition(p).y - correctPosition(n).y))

\* the placed neighbours of p whose expected position is within the threshold
snapCandidates(placed, p, position, threshold) ==
    {n \in neighbors(p) :
        /\ IsPlaced(placed, n)
        /\ distance2(position, expectedPos(placed, p, n)) < threshold * threshold}

\* snapCandidates.sort((a, b) => a.dist - b.dist)[0]: the sort is stable and the
\* candidates are pushed in the order of Object.values(piece.neighbors), which
\* setupNeighbors fills in the order of the pieces array
bestCandidate(placed, p, position, cands) ==
    CHOOSE b \in cands :
        \A c \in cands :
            LET db == distance2(position, expectedPos(placed, p, b))
                dc == distance2(position, expectedPos(placed, p, c))
            IN  db < dc \/ (db = dc /\ b <= c)

checkAndSnapToNeighbors(placed, p, position, threshold) ==
    LET cands == snapCandidates(placed, p, position, threshold)
    IN  IF cands # {}
        THEN [shouldSnap |-> TRUE,
              snapPosition |-> expectedPos(placed, p, bestCandidate(placed, p, position, cands)),
              neighbors |-> cands \cup UNION {getConnectedGroup(placed, c) : c \in cands}]
        ELSE [shouldSnap |-> FALSE, snapPosition |-> position, neighbors |-> {}]

EmptyPool == [p \in Pieces |-> 0]
NoPlaced == [p \in Pieces |-> NoEntry]

PoolIds(pool) == {p \in Pieces : pool[p] > 0}
PlacedIds(placed) == {p \in Pieces : IsPlaced(placed, p)}
RECURSIVE sumCopies(_, _)
sumCopies(pool, ids) ==
    IF ids = {} THEN 0
    ELSE LET p == CHOOSE q \in ids : TRUE IN pool[p] + sumCopies(pool, ids \ {p})
\* poolItems.length
PoolLength(pool) == sumCopies(pool, DOMAIN pool)

\* prev.filter(id => !ids.includes(id))
poolFilter(pool, ids) == [p \in DOMAIN pool |-> IF p \in ids THEN 0 ELSE pool[p]]
\* [...prev, ...ids]
poolAppend(pool, ids) == [p \in DOMAIN pool |-> IF p \in ids THEN pool[p] + 1 ELSE pool[p]]

PositionsInBoard(placed) == \A p \in Pieces : IsPlaced(placed, p) => InBoard(placed[p].position)
CopiesInBound(pool) == \A p \in Pieces : pool[p] <= MaxCopies

\* the completion effect of part_002, part_003 and puzzle-random/page.tsx
lockedCountSolved(pool, placed) ==
    /\ NumPieces # 0
    /\ PoolLength(pool) = 0
    /\ Cardinality({p \in Pieces : IsPlaced(placed, p) /\ placed[p].isLocked}) = NumPieces

\* the completion effect of puzzle-triangle/page.tsx: traversal from pieces[0]
connectivitySolved(pool, placed) ==
    /\ NumPieces # 0
    /\ Cardinality(PlacedIds(placed)) = NumPieces
    /\ PoolLength(pool) = 0
    /\ Cardinality(getConnectedGroup(placed, 0)) = NumPieces

\* what the mounted component's completion effect tests
completionTest(pool, placed) ==
    IF variant = "dnd" THEN connectivitySolved(pool, placed) ELSE lockedCountSolved(pool, placed)

ViewOf(pool, placed, drag, act, src) ==
    [poolItems |-> pool, placedPieces |-> placed, dragState |-> drag,
     activeId |-> act, dragSource |-> src]

\* the mouse button or touch as the browser sees it: "up" or "down", the last press
\* on a piece (from the pool or from the board), and whether the pointer is over the
\* board; "aborted" after the host has cancelled the gesture
idle == [status |-> "up", over |-> "away", source |-> NoSource, grabbed |-> NoActive]
pressed(id, over, source) ==
    [status |-> "down", over |-> over, source |-> source, grabbed |-> {id}]
moved(p, over) == IF p.status = "down" THEN [p EXCEPT !.over = over] ELSE p
released(p, over) == [p EXCEPT !.status = "up", !.over = over]
aborted(p) == [p EXCEPT !.status = "aborted"]
overOf(mouse) == IF InsideCanvas(mouse) THEN "board" ELSE "away"

\* an overlay that is never rendered
overlayShownMutant == FALSE

\* {(isSolved || isGameOver) && <div className="absolute inset-0 ... z-50">}: the
\* overlay puzzle-random and puzzle-triangle render over <main>; it lies above the
\* board (z-10) and takes the pointer events of the placed pieces, while the pool
\* in <aside> stays outside it.  part_002 renders no overlay.
overlayShown == isSolved \/ isGameOver

-----------------------------------------------------------------------------
(* "canvas": PuzzleTriangle of part_002 *)

\* handlePoolPieceMouseDown: a pool piece is a rendered element of the pool list
CanvasPoolPieceMouseDown(id) ==
    /\ variant = "canvas"
    /\ pointer.status # "down"    \* one button, one press at a time
    /\ pointer' = pressed(id, "away", "pool")
    /\ gestures < MaxGestures
    /\ gestures' = gestures + 1
    /\ view.poolItems[id] > 0
    /\ dragState' = [primary |-> id, pieceIds |-> {id}, offset |-> Origin]
    /\ UNCHANGED <<exactSlotVars, configVars, timerVars, variant, pieces, poolItems, placedPieces, dragSourceRef, active, activeId, dragSource>>
    /\ isSolved' = (isSolved \/ completionTest(poolItems, placedPieces))
    /\ view' = ViewOf(poolItems, placedPieces, dragState', activeId, dragSource)

\* handlePlacedPieceMouseDown: the pointer goes down on the rendered piece, at g from its corner
CanvasPlacedPieceMouseDown(id, g) ==
    /\ variant = "canvas"
    /\ pointer.status # "down"    \* one button, one press at a time
    /\ pointer' = pressed(id, "board", "placed")
    /\ gestures < MaxGestures
    /\ gestures' = gestures + 1
    /\ IsPlaced(view.placedPieces, id)
    /\ LET placed == view.placedPieces[id]
           mouseX == placed.position.x + g.x
           mouseY == placed.position.y + g.y
           connectedGroup == getConnectedGroup(view.placedPieces, id)
       IN  dragState' = [primary |-> id, pieceIds |-> connectedGroup,
                         offset |-> Pt(mouseX - placed.position.x, mouseY - placed.position.y)]
    /\ UNCHANGED <<exactSlotVars, configVars, timerVars, variant, pieces, poolItems, placedPieces, dragSourceRef, active, activeId, dragSource>>
    /\ isSolved' = (isSolved \/ completionTest(poolItems, placedPieces))
    /\ view' = ViewOf(poolItems, placedPieces, dragState', activeId, dragSource)

\* the map handleMouseMove's updater returns: ds, closurePlaced are the handler's
\* closure values, prev the current map
movedPieces(ds, closurePlaced, prev, mouse) ==
    LET primaryPieceId == ds.primary
        newX == mouse.x - ds.offset.x
        newY == mouse.y - ds.offset.y
        oldPlaced == closurePlaced[primaryPieceId]
        offsetX == IF oldPlaced # NoEntry THEN newX - oldPlaced.position.x ELSE 0
        offsetY == IF oldPlaced # NoEntry THEN newY - oldPlaced.position.y ELSE 0
    IN  [id \in Pieces |->
            IF id \notin ds.pieceIds THEN prev[id]
            ELSE IF id = primaryPieceId
                 THEN [position |-> Pt(newX, newY), isLocked |-> FALSE, connectedGroup |-> {}]
            ELSE IF prev[id] # NoEntry
                 THEN [prev[id] EXCEPT !.position = Pt(prev[id].position.x + offsetX,
                                                       prev[id].position.y + offsetY),
                                       !.isLocked = FALSE]
            ELSE prev[id]]

\* handleMouseMove (onMouseMove of the canvas): a continuous event, rendered later
CanvasMouseMove(mouse) ==
    /\ variant = "canvas"
    /\ pointer' = moved(pointer, "board")
    /\ UNCHANGED gestures
    /\ view.dragState # Null
    /\ InsideCanvas(mouse)
    /\ placedPieces' = movedPieces(view.dragState, view.placedPieces, placedPieces, mouse)
    /\ PositionsInBoard(placedPieces')
    /\ poolItems' = poolFilter(poolItems, view.dragState.pieceIds)
    /\ UNCHANGED <<exactSlotVars, configVars, timerVars, variant, pieces, dragState, dragSourceRef, active, activeId, dragSource, isSolved, view>>

\* a merge that leaves the dragged pieces out of the neighbours' groups
snappedPiecesMutant(ds, prev, snap, offsetX, offsetY) ==
    LET allConnected == ds.pieceIds \cup snap.neighbors
    IN  [id \in Pieces |->
            IF id \in snap.neighbors /\ prev[id] # NoEntry
            THEN [prev[id] EXCEPT !.connectedGroup = snap.neighbors \ ({id} \cup ds.pieceIds)]
            ELSE IF id \in ds.pieceIds /\ prev[id] # NoEntry
            THEN [position |-> Pt(prev[id].position.x + offsetX, prev[id].position.y + offsetY),
                  isLocked |-> TRUE,
                  connectedGroup |-> allConnected \ {id}]
            ELSE prev[id]]

\* the map the updater of handleMouseUp / onUp returns when the primary piece snaps
snappedPieces(ds, prev, snap, offsetX, offsetY) ==
    LET allConnected == ds.pieceIds \cup snap.neighbors
    IN  [id \in Pieces |->
            IF id \in snap.neighbors /\ prev[id] # NoEntry
            THEN [prev[id] EXCEPT !.connectedGroup = allConnected \ {id}]
            ELSE IF id \in ds.pieceIds /\ prev[id] # NoEntry
            THEN [position |-> Pt(prev[id].position.x + offsetX, prev[id].position.y + offsetY),
                  isLocked |-> TRUE,
                  connectedGroup |-> allConnected \ {id}]
            ELSE prev[id]]

\* what a release of a placed primary piece does to the map (handleMouseUp, and the
\* 'placed' branch of onUp)
releasedPieces(ds, closurePlaced, prev) ==
    LET placed == closurePlaced[ds.primary]
    IN  IF placed = NoEntry THEN prev
        ELSE LET snap == checkAndSnapToNeighbors(closurePlaced, ds.primary, placed.position,
                                                 snapThreshold)
             IN  IF snap.shouldSnap /\ snap.neighbors # {}
                 THEN snappedPieces(ds, prev, snap,
                                    snap.snapPosition.x - placed.position.x,
                                    snap.snapPosition.y - placed.position.y)
                 ELSE prev

\* handleMouseUp, bound to onMouseUp and to onMouseLeave of the canvas
handleMouseUp ==
    /\ variant = "canvas"
    /\ UNCHANGED gestures
    /\ view.dragState # Null
    /\ placedPieces' = releasedPieces(view.dragState, view.placedPieces, placedPieces)
    /\ PositionsInBoard(placedPieces')
    /\ dragState' = Null
    /\ UNCHANGED <<exactSlotVars, configVars, timerVars, variant, pieces, poolItems, dragSourceRef, active, activeId, dragSource>>
    /\ isSolved' = (isSolved \/ completionTest(poolItems, placedPieces'))
    /\ view' = ViewOf(poolItems, placedPieces', dragState', activeId, dragSource)

\* onMouseUp of the canvas: the button is released over the board
CanvasMouseUp == handleMouseUp /\ pointer' = released(pointer, "board")

\* onMouseLeave of the canvas: the pointer leaves the board, the button as it was
CanvasMouseLeave == handleMouseUp /\ pointer' = moved(pointer, "away")

\* the button is released while the pointer is off the canvas: the canvas gets no event
CanvasReleaseOutside ==
    /\ variant = "canvas"
    /\ pointer.status = "down"
    /\ pointer.over = "away"
    /\ pointer' = released(pointer, "away")
    /\ UNCHANGED <<exactSlotVars, configVars, timerVars, variant, pieces, poolItems, placedPieces,
                   dragState, dragSourceRef, active, activeId, dragSource, isSolved,
                   gestures, view>>

\* handleReturnToPool (onDoubleClick of a rendered placed piece)
returnedPlaced(prev, connectedGroup) ==
    [id \in Pieces |-> IF id \in connectedGroup THEN NoEntry ELSE prev[id]]

CanvasReturnToPool(id) ==
    /\ variant = "canvas"
    /\ UNCHANGED pointer
    /\ view.dragState = Null    \* the press and release of the double click are over
    /\ gestures < MaxGestures
    /\ gestures' = gestures + 1
    /\ IsPlaced(view.placedPieces, id)
    /\ LET connectedGroup == getConnectedGroup(view.placedPieces, id)
       IN  /\ placedPieces' = returnedPlaced(placedPieces, connectedGroup)
           /\ poolItems' = poolAppend(poolItems, connectedGroup)
    /\ CopiesInBound(poolItems')
    /\ UNCHANGED <<exactSlotVars, configVars, timerVars, variant, pieces, dragState, dragSourceRef, active, activeId, dragSource>>
    /\ isSolved' = (isSolved \/ completionTest(poolItems', placedPieces'))
    /\ view' = ViewOf(poolItems', placedPieces', dragState, activeId, dragSource)

\* React renders the pending updates of move events; the completion effect runs
Render ==
    /\ UNCHANGED <<gestures, pointer>>
    /\ view # ViewOf(poolItems, placedPieces, dragState, activeId, dragSource)
    /\ view' = ViewOf(poolItems, placedPieces, dragState, activeId, dragSource)
    /\ isSolved' = (isSolved \/ completionTest(poolItems, placedPieces))
    /\ UNCHANGED <<exactSlotVars, configVars, timerVars, variant, pieces, poolItems, placedPieces, dragState, dragSourceRef, active,
                   activeId, dragSource>>

-----------------------------------------------------------------------------
(* "doc": PuzzleRandomPage of puzzle-random/page.tsx *)

\* piece.width / 2, piece.height / 2 (the scale sc is 1)
halfSize(p) ==
    Pt(pieces[p].width \div 2, pieces[p].height \div 2)

\* handlePoolPieceMouseDown
DocPoolPieceMouseDown(id) ==
    /\ variant = "doc"
    /\ pointer.status # "down"    \* one button, one press at a time
    /\ pointer' = pressed(id, "away", "pool")
    /\ gestures < MaxGestures
    /\ gestures' = gestures + 1
    /\ view.poolItems[id] > 0
    /\ dragSourceRef' = "pool"
    /\ dragState' = [primary |-> id, pieceIds |-> {id}, offset |-> halfSize(id)]
    /\ poolItems' = poolFilter(poolItems, {id})
    /\ UNCHANGED <<exactSlotVars, configVars, timerVars, variant, pieces, placedPieces, active, activeId, dragSource>>
    /\ isSolved' = (isSolved \/ completionTest(poolItems', placedPieces))
    /\ view' = ViewOf(poolItems', placedPieces, dragState', activeId, dragSource)

\* handlePlacedPieceMouseDown
DocPlacedPieceMouseDown(id, g) ==
    /\ variant = "doc"
    /\ pointer.status # "down"    \* one button, one press at a time
    /\ pointer' = pressed(id, "board", "placed")
    /\ gestures < MaxGestures
    /\ gestures' = gestures + 1
    /\ ~overlayShown    \* the piece is not under the overlay
    /\ IsPlaced(view.placedPieces, id)
    /\ LET placed == view.placedPieces[id]
           mouseX == placed.position.x + g.x
           mouseY == placed.position.y + g.y
           connectedGroup == getConnectedGroup(view.placedPieces, id)
       IN  dragState' = [primary |-> id, pieceIds |-> connectedGroup,
                         offset |-> Pt(mouseX - placed.position.x, mouseY - placed.position.y)]
    /\ dragSourceRef' = "placed"
    /\ UNCHANGED <<exactSlotVars, configVars, timerVars, variant, pieces, poolItems, placedPieces, active, activeId, dragSource>>
    /\ isSolved' = (isSolved \/ completionTest(poolItems, placedPieces))
    /\ view' = ViewOf(poolItems, placedPieces, dragState', activeId, dragSource)

\* onMove, with the animation frame it requests: the listener exists while the
\* rendered dragState is not null; a drag from the pool only moves the preview
DocMove(mouse) ==
    /\ variant = "doc"
    /\ pointer' = moved(pointer, overOf(mouse))
    /\ view.dragState # Null
    /\ dragSourceRef # "pool"
    /\ placedPieces' = movedPieces(view.dragState, view.placedPieces, placedPieces, mouse)
    /\ PositionsInBoard(placedPieces')
    /\ UNCHANGED <<exactSlotVars, configVars, timerVars, variant, pieces, poolItems, dragState, dragSourceRef, active, activeId,
                   dragSource, isSolved, gestures, view>>

\* the map the 'pool' branch of onUp returns for a release inside the canvas
droppedPieces(primaryPieceId, prev, snap, position) ==
    LET finalPos == IF snap.shouldSnap THEN snap.snapPosition ELSE position
        allConnected == {primaryPieceId} \cup snap.neighbors
    IN  IF snap.shouldSnap /\ snap.neighbors # {}
        THEN [id \in Pieces |->
                IF id \notin allConnected THEN prev[id]
                ELSE IF id = primaryPieceId
                     THEN [position |-> finalPos, isLocked |-> TRUE,
                           connectedGroup |-> allConnected \ {id}]
                ELSE IF prev[id] # NoEntry
                     THEN [prev[id] EXCEPT !.isLocked = TRUE,
                                           !.connectedGroup = allConnected \ {id}]
                ELSE prev[id]]
        ELSE [prev EXCEPT ![primaryPieceId] =
                [position |-> finalPos, isLocked |-> FALSE, connectedGroup |-> {}]]

\* onUp
onUp(mouse) ==
    /\ variant = "doc"
    /\ view.dragState # Null
    /\ LET ds == view.dragState
           position == Pt(mouse.x - ds.offset.x, mouse.y - ds.offset.y)
       IN  IF dragSourceRef = "pool"
           THEN IF InsideCanvas(mouse)
                THEN /\ placedPieces' =
                            droppedPieces(ds.primary, placedPieces,
                                checkAndSnapToNeighbors(view.placedPieces, ds.primary,
                                                        position, snapThreshold),
                                position)
                     /\ poolItems' = poolItems
                ELSE /\ poolItems' = poolAppend(poolItems, ds.pieceIds)
                     /\ placedPieces' = placedPieces
           ELSE /\ placedPieces' = releasedPieces(ds, view.placedPieces, placedPieces)
                /\ poolItems' = poolItems
    /\ PositionsInBoard(placedPieces')
    /\ CopiesInBound(poolItems')
    /\ dragState' = Null
    /\ dragSourceRef' = NoSource
    /\ UNCHANGED <<exactSlotVars, configVars, timerVars, variant, pieces, active, activeId, dragSource, gestures>>
    /\ isSolved' = (isSolved \/ completionTest(poolItems', placedPieces'))
    /\ view' = ViewOf(poolItems', placedPieces', dragState', activeId, dragSource)

\* mouseup / touchend on the document: the listeners of the drag effect call onUp
DocUp(mouse) == onUp(mouse) /\ pointer' = released(pointer, overOf(mouse))

\* the browser cancels the touch (touchcancel): the drag effect listens for mousemove,
\* mouseup, touchmove and touchend only
DocTouchCancel ==
    /\ variant = "doc"
    /\ pointer.status = "down"
    /\ pointer' = aborted(pointer)
    /\ UNCHANGED <<exactSlotVars, configVars, timerVars, variant, pieces, poolItems, placedPieces,
                   dragState, dragSourceRef, active, activeId, dragSource, isSolved,
                   gestures, view>>

\* handleReturnToPool (onDoubleClick of a rendered placed piece)
DocReturnToPool(id) ==
    /\ variant = "doc"
    /\ UNCHANGED pointer
    /\ ~overlayShown    \* the piece is not under the overlay
    /\ view.dragState = Null    \* the press and release of the double click are over
    /\ gestures < MaxGestures
    /\ gestures' = gestures + 1
    /\ IsPlaced(view.placedPieces, id)
    /\ LET connectedGroup == getConnectedGroup(view.placedPieces, id)
       IN  /\ placedPieces' = returnedPlaced(placedPieces, connectedGroup)
           /\ poolItems' = poolAppend(poolItems, connectedGroup)
    /\ CopiesInBound(poolItems')
    /\ UNCHANGED <<exactSlotVars, configVars, timerVars, variant, pieces, dragState, dragSourceRef, active, activeId, dragSource>>
    /\ isSolved' = (isSolved \/ completionTest(poolItems', placedPieces'))
    /\ view' = ViewOf(poolItems', placedPieces', dragState, activeId, dragSource)

-----------------------------------------------------------------------------
(* "dnd": PuzzleTriangle of puzzle-triangle/page.tsx (dnd-kit) *)

\* event.over?.id
Overs == {"puzzle-canvas", "none"}
\* event.delta of a drag of a placed piece
Deltas == {Pt(45, 0), Pt(-45, 0), Pt(-5, 0)}

\* handleDragStart: dnd-kit activates a rendered draggable when none is active
DndDragStart(id) ==
    /\ variant = "dnd"
    /\ pointer' = pressed(id, IF view.poolItems[id] > 0 THEN "away" ELSE "board",
                        IF view.poolItems[id] > 0 THEN "pool" ELSE "placed")
    /\ gestures < MaxGestures
    /\ gestures' = gestures + 1
    /\ active = NoActive
    /\ view.poolItems[id] > 0 \/ (IsPlaced(view.placedPieces, id) /\ ~overlayShown)
    /\ active' = {id}
    /\ activeId' = {id}
    /\ IF view.poolItems[id] > 0
       THEN /\ dragSource' = "pool"
            /\ poolItems' = poolFilter(poolItems, {id})
       ELSE /\ dragSource' = "placed"
            /\ poolItems' = poolItems
    /\ UNCHANGED <<exactSlotVars, configVars, timerVars, variant, pieces, placedPieces, dragState, dragSourceRef>>
    /\ isSolved' = (isSolved \/ completionTest(poolItems', placedPieces))
    /\ view' = ViewOf(poolItems', placedPieces, dragState, activeId', dragSource')

\* handleDragEnd, 'placed' branch: the group moved by delta, not locked
shiftedPieces(prev, connectedGroup, delta) ==
    [id \in Pieces |->
        IF id \in connectedGroup /\ prev[id] # NoEntry
        THEN [prev[id] EXCEPT !.position = Pt(prev[id].position.x + delta.x,
                                              prev[id].position.y + delta.y),
                              !.isLocked = FALSE]
        ELSE prev[id]]

\* the pairs <<group piece, neighbour outside the group>> within the threshold
groupSnapCandidates(newMap, connectedGroup) ==
    {c \in connectedGroup \X Pieces :
        /\ newMap[c[1]] # NoEntry
        /\ c[2] \in neighbors(c[1])
        /\ c[2] \notin connectedGroup
        /\ newMap[c[2]] # NoEntry
        /\ distance2(newMap[c[1]].position, expectedPos(newMap, c[1], c[2]))
              < snapThreshold * snapThreshold}

\* the walk that expands a neighbour to its connected group, never entering the
\* dragged group
RECURSIVE walkOutside(_, _, _, _)
walkOutside(newMap, queue, visited, connectedGroup) ==
    LET todo == (queue \ visited) \ connectedGroup
    IN  IF todo = {} THEN visited
        ELSE walkOutside(newMap,
                         UNION {IF newMap[c] # NoEntry THEN newMap[c].connectedGroup ELSE {}
                                : c \in todo},
                         visited \cup todo, connectedGroup)

\* the map the updater returns when bestSnap is the pair bs
groupSnappedPieces(newMap, connectedGroup, cands, bs) ==
    LET snapPos == expectedPos(newMap, bs[1], bs[2])
        snapOffset == Pt(snapPos.x - newMap[bs[1]].position.x,
                         snapPos.y - newMap[bs[1]].position.y)
        allNeighborIds == {c[2] : c \in cands}
        expandedNeighbors == walkOutside(newMap, allNeighborIds, {}, connectedGroup)
        allConnected == connectedGroup \cup expandedNeighbors
    IN  [id \in Pieces |->
            IF id \in allConnected /\ newMap[id] # NoEntry
            THEN [position |-> IF id \in connectedGroup
                               THEN Pt(newMap[id].position.x + snapOffset.x,
                                       newMap[id].position.y + snapOffset.y)
                               ELSE newMap[id].position,
                  isLocked |-> TRUE,
                  connectedGroup |-> allConnected \ {id}]
            ELSE newMap[id]]

\* the candidates bestSnap may end as: 'dist < bestSnap.dist' keeps the first of the
\* nearest pairs in the iteration order of the group array and of the neighbours
\* object; that order is not part of the state, so each nearest pair is allowed
nearestCandidates(newMap, cands) ==
    {b \in cands : \A c \in cands :
        distance2(newMap[b[1]].position, expectedPos(newMap, b[1], b[2]))
            <= distance2(newMap[c[1]].position, expectedPos(newMap, c[1], c[2]))}

\* every map the 'placed' branch may return
dragEndPlaced(prev, connectedGroup, delta) ==
    LET newMap == shiftedPieces(prev, connectedGroup, delta)
        cands == groupSnapCandidates(newMap, connectedGroup)
    IN  IF cands = {} THEN {newMap}
        ELSE {groupSnappedPieces(newMap, connectedGroup, cands, bs)
                : bs \in nearestCandidates(newMap, cands)}

\* handleDragEnd
handleDragEnd(over, mouse, delta) ==
    /\ variant = "dnd"
    /\ active # NoActive
    /\ LET pieceId == CHOOSE id \in active : TRUE
           position == Pt(mouse.x - halfSize(pieceId).x, mouse.y - halfSize(pieceId).y)
       IN  CASE view.dragSource = "pool" ->
                  IF over = "puzzle-canvas"
                  THEN /\ placedPieces' =
                             droppedPieces(pieceId, placedPieces,
                                 checkAndSnapToNeighbors(view.placedPieces, pieceId,
                                                         position, snapThreshold),
                                 position)
                       /\ poolItems' = poolItems
                  ELSE /\ poolItems' = poolAppend(poolItems, {pieceId})
                       /\ placedPieces' = placedPieces
             [] view.dragSource = "placed" ->
                  /\ placedPieces' \in
                        dragEndPlaced(placedPieces,
                                      getConnectedGroup(view.placedPieces, pieceId), delta)
                  /\ poolItems' = poolItems
             [] OTHER -> UNCHANGED <<poolItems, placedPieces>>
    /\ PositionsInBoard(placedPieces')
    /\ CopiesInBound(poolItems')
    /\ active' = NoActive
    /\ activeId' = NoActive
    /\ dragSource' = NoSource
    /\ UNCHANGED <<exactSlotVars, configVars, timerVars, variant, pieces, dragState, dragSourceRef, gestures>>
    /\ isSolved' = (isSolved \/ completionTest(poolItems', placedPieces'))
    /\ view' = ViewOf(poolItems', placedPieces', dragState, activeId', dragSource')

\* dnd-kit ends the drag on the release of the pointer: onDragEnd={handleDragEnd}
DndDragEnd(over, mouse, delta) ==
    /\ handleDragEnd(over, mouse, delta)
    /\ pointer' = released(pointer, IF over = "puzzle-canvas" THEN "board" ELSE "away")

\* dnd-kit cancels the drag (Escape, window blur): DndContext has no onDragCancel
DndDragCancel ==
    /\ variant = "dnd"
    /\ pointer' = aborted(pointer)
    /\ active # NoActive
    /\ active' = NoActive
    /\ UNCHANGED <<exactSlotVars, configVars, timerVars, variant, pieces, poolItems, placedPieces, dragState, dragSourceRef, activeId,
                   dragSource, isSolved, gestures, view>>

\* handleReturnToPool (onDoubleClick of a rendered placed piece)
DndReturnToPool(id) ==
    /\ variant = "dnd"
    /\ UNCHANGED pointer
    /\ ~overlayShown    \* the piece is not under the overlay
    /\ gestures < MaxGestures
    /\ gestures' = gestures + 1
    /\ active = NoActive
    /\ IsPlaced(view.placedPieces, id)
    /\ LET connectedGroup == getConnectedGroup(view.placedPieces, id)
       IN  /\ placedPieces' = returnedPlaced(placedPieces, connectedGroup)
           /\ poolItems' = poolAppend(poolItems, connectedGroup)
    /\ CopiesInBound(poolItems')
    /\ UNCHANGED <<exactSlotVars, configVars, timerVars, variant, pieces, dragState, dragSourceRef, active, activeId, dragSource>>
    /\ isSolved' = (isSolved \/ completionTest(poolItems', placedPieces'))
    /\ view' = ViewOf(poolItems', placedPieces', dragState, activeId, dragSource)

-----------------------------------------------------------------------------
Variants == {"canvas", "doc", "dnd"}

\* the countdown is left out: it is far from zero and the game is not over
timerOff == timeRemaining = 0 /\ isGameOver = FALSE

InitBoard ==
    /\ variant \in Variants
    /\ pieces = builtPieces(variant)
    /\ poolItems = [p \in Pieces |-> 1]
    /\ placedPieces = NoPlaced
    /\ dragState = Null
    /\ dragSourceRef = NoSource
    /\ active = NoActive
    /\ activeId = NoActive
    /\ dragSource = NoSource
    /\ isSolved = FALSE
    /\ gestures = 0
    /\ view = ViewOf([p \in Pieces |-> 1], NoPlaced, Null, NoActive, NoSource)
    /\ gridItems = <<>>
    /\ mode = "none"
    /\ notice = "none"
    /\ attempts = 0
    /\ isCompleted = FALSE
    /\ score = 0
    /\ pointer = idle
    /\ pieceCount = NumPieces
    /\ config = Null
    /\ image = [width |-> imageWidth, height |-> imageHeight]

Init == InitBoard /\ timerOff

Next ==
    \/ \E id \in Pieces : CanvasPoolPieceMouseDown(id)
    \/ \E id \in Pieces, g \in GrabOffsets : CanvasPlacedPieceMouseDown(id, g)
    \/ \E mouse \in Pointers : CanvasMouseMove(mouse)
    \/ CanvasMouseUp
    \/ CanvasMouseLeave
    \/ CanvasReleaseOutside
    \/ \E id \in Pieces : CanvasReturnToPool(id)
    \/ Render
    \/ \E id \in Pieces : DocPoolPieceMouseDown(id)
    \/ \E id \in Pieces, g \in GrabOffsets : DocPlacedPieceMouseDown(id, g)
    \/ \E mouse \in Pointers : DocMove(mouse)
    \/ \E mouse \in Pointers : DocUp(mouse)
    \/ DocTouchCancel
    \/ \E id \in Pieces : DocReturnToPool(id)
    \/ \E id \in Pieces : DndDragStart(id)
    \/ \E over \in Overs, mouse \in Pointers, delta \in Deltas : DndDragEnd(over, mouse, delta)
    \/ DndDragCancel
    \/ \E id \in Pieces : DndReturnToPool(id)

Spec == Init /\ [][Next]_vars

-----------------------------------------------------------------------------
(* Exact-slot variants.
   "jigsaw": PuzzleJigsaw of puzzleGame-berhasil.tsx and puzzleGame-berhasil-2.tsx
   "timed":  PuzzleGame of part_007
   "store":  PuzzleContainer of loadingPuzzle.tsx over usePuzzleStore and PuzzleGrid *)

slotRows == 2
slotCols == 2
totalSlots == slotRows * slotCols
Slots == 0 .. totalSlots - 1
\* splitImage: piece-<index> has correctIndex index
SlotPieces == 0 .. totalSlots - 1
splitPieces == [p \in SlotPieces |-> [correctIndex |-> p]]
\* the '' of an empty slot
Empty == -1
Min(a, b) == IF a < b THEN a ELSE b

\* Math.floor(totalSlots * 0.4) + 2
placedCount == (totalSlots * 4) \div 10 + 2

\* the grid and pool the load effect sets: in 'partial' mode the first placedCount pieces of the
\* shuffled order sit on their correct slots
loadedGrid(prePlaced) ==
    [i \in Slots |-> IF \E p \in prePlaced : splitPieces[p].correctIndex = i
                     THEN CHOOSE p \in prePlaced : splitPieces[p].correctIndex = i
                     ELSE Empty]
loadedPool(prePlaced) == [p \in SlotPieces |-> IF p \in prePlaced THEN 0 ELSE 1]

\* the droppables dnd-kit knows: one useDroppable per slot; the pool is a plain element
slotId(index) == [prefix |-> "slot-", index |-> index]
SlotOvers == {Null} \cup {slotId(i) : i \in Slots}

\* gridItems.indexOf(id)
indexOf(grid, id) ==
    IF \E i \in DOMAIN grid : grid[i] = id
    THEN CHOOSE i \in DOMAIN grid : grid[i] = id /\ \A j \in DOMAIN grid : grid[j] = id => i <= j
    ELSE -1

\* a completion test that is content with one filled slot
exactSlotSolvedMutant(pool, grid) == \E i \in DOMAIN grid : grid[i] # Empty

\* the completion effect: pool empty, no '' in the grid, every slot holds the piece of its index
exactSlotSolved(pool, grid) ==
    /\ PoolLength(pool) = 0
    /\ \A i \in DOMAIN grid : grid[i] # Empty
    /\ \A i \in DOMAIN grid : pieces[grid[i]].correctIndex = i

\* a handleDragEnd without its two tests
slotDropAcceptedMutant(grid, piece, targetIndex) == TRUE

\* the two tests of handleDragEnd that let a drop on a slot through
slotDropAccepted(grid, piece, targetIndex) ==
    /\ grid[targetIndex] = Empty
    /\ piece.correctIndex = targetIndex

\* handleDragEnd, after setActiveId(null): the grid, the pool and the feedback it leaves
slotDropped(v, grid, pool, activePieceId, over) ==
    IF over = Null THEN [grid |-> grid, pool |-> pool, notice |-> notice]
    ELSE IF "prefix" \in DOMAIN over /\ over.prefix = "slot-"
    THEN LET targetIndex == over.index
         IN  IF slotDropAccepted(grid, pieces[activePieceId], targetIndex)
             THEN [grid |-> [grid EXCEPT ![targetIndex] = activePieceId],
                   pool |-> poolFilter(pool, {activePieceId}),
                   notice |-> IF v = "timed" THEN "sfxCorrect" ELSE notice]
             ELSE [grid |-> grid, pool |-> pool,
                   notice |-> IF v = "timed" THEN "sfxFalse"
                              ELSE IF grid[targetIndex] # Empty THEN "Slot sudah terisi!"
                              ELSE "Posisi salah!"]
    ELSE IF v = "jigsaw" /\ over = [id |-> "pool"] /\ indexOf(grid, activePieceId) # -1
    THEN [grid |-> [grid EXCEPT ![indexOf(grid, activePieceId)] = Empty],
          pool |-> poolAppend(pool, {activePieceId}),
          notice |-> notice]
    ELSE [grid |-> grid, pool |-> pool, notice |-> notice]

\* handleDragStart: every piece is rendered as a draggable, in the pool or in its slot
SlotDragStart(id) ==
    /\ variant \in {"jigsaw", "timed"}
    \* PuzzleGame of part_007 renders the same overlay over <main>: only the pieces of
    \* the pool in <aside> stay within reach
    /\ (variant = "timed" /\ overlayShown) => poolItems[id] > 0
    /\ gestures < MaxGestures
    /\ gestures' = gestures + 1
    /\ active = NoActive
    /\ active' = {id}
    /\ activeId' = {id}
    /\ UNCHANGED <<snapVars, timerVars, configVars, variant, pieces, poolItems, isSolved, gridItems, mode,
                   notice, attempts, isCompleted, score>>

\* handleDragEnd, the render that follows and the completion effect
SlotDragEnd(over) ==
    /\ variant \in {"jigsaw", "timed"}
    /\ active # NoActive
    /\ LET activePieceId == CHOOSE id \in active : TRUE
           dropped == slotDropped(variant, gridItems, poolItems, activePieceId, over)
       IN  /\ gridItems' = dropped.grid
           /\ poolItems' = dropped.pool
           /\ notice' = dropped.notice
    /\ active' = NoActive
    /\ activeId' = NoActive
    /\ isSolved' = (isSolved \/ exactSlotSolved(poolItems', gridItems'))
    /\ UNCHANGED <<snapVars, timerVars, configVars, variant, pieces, gestures, mode, attempts, isCompleted, score>>

\* --- "store": lib/data.ts levels, usePuzzleStore, PuzzleGrid, PuzzleContainer ---

gridSize == 2
StorePieces == 0 .. gridSize * gridSize - 1
\* what parseInt gives for a missing field
NaN == -1
\* ===, with NaN equal to nothing
strictEq(a, b) == a # NaN /\ b # NaN /\ a = b

\* generatePieces, then setLevel: no piece has a currentPosition
generatePieces ==
    [i \in StorePieces |->
        [correctPosition |-> Pt(i % gridSize, i \div gridSize), currentPosition |-> Null]]

\* PuzzleGrid: the droppable of the cell at (row, col) has the id `${row}-${col}`,
\* kept here as its "-"-separated fields
dropzoneId(row, col) == [fields |-> <<row, col>>]
\* dropzoneId.split("-")
split(id) == id.fields
StoreOvers == {Null} \cup {dropzoneId(r, c) : r \in 0 .. gridSize - 1, c \in 0 .. gridSize - 1}

\* parseInt of the i-th field of the split id (1-based), NaN when the field is missing
parsedField(fields, i) == IF i <= Len(fields) THEN fields[i] ELSE NaN
\* const [, x, y] = dropzoneId.split("-")
targetPosition(fields) == [x |-> parsedField(fields, 2), y |-> parsedField(fields, 3)]

\* pieces.find(p => p.currentPosition?.x === target.x && p.currentPosition?.y === target.y)
occupiedPieces(pcs, target) ==
    {p \in DOMAIN pcs : /\ pcs[p].currentPosition # Null
                        /\ strictEq(pcs[p].currentPosition.x, target.x)
                        /\ strictEq(pcs[p].currentPosition.y, target.y)}

\* movePiece of the store
movePiece(pcs, pieceId, position) ==
    [p \in DOMAIN pcs |-> IF p = pieceId THEN [pcs[p] EXCEPT !.currentPosition = position]
                          ELSE pcs[p]]

\* checkCompletion of the store: every piece sits on its correctPosition
checkCompletion(pcs) ==
    \A p \in DOMAIN pcs :
        /\ pcs[p].currentPosition # Null
        /\ pcs[p].currentPosition.x = pcs[p].correctPosition.x
        /\ pcs[p].currentPosition.y = pcs[p].correctPosition.y

\* timeBonus = Math.max(0, 1000 - Math.floor(timeTaken / 1000)): the two ends of its range
TimeBonuses == {0, 1000}

\* what checkCompletion leaves in the store: set({isCompleted: true, score: score + 100 + timeBonus})
\* when every piece is correct, nothing otherwise
completedAfter(pcs, done) == IF checkCompletion(pcs) THEN TRUE ELSE done
scoreAfter(pcs, sc, bonus) == IF checkCompletion(pcs) THEN sc + 100 + bonus ELSE sc

\* handleDragStart of PuzzleContainer (activePiece is kept in activeId)
StoreDragStart(id) ==
    /\ variant = "store"
    /\ gestures < MaxGestures
    /\ gestures' = gestures + 1
    /\ active = NoActive
    /\ active' = {id}
    /\ activeId' = {id}
    /\ UNCHANGED <<snapVars, timerVars, configVars, variant, pieces, poolItems, isSolved, gridItems, mode,
                   notice, attempts, isCompleted, score>>

\* handleDragEnd of PuzzleContainer; the checkCompletion it schedules 100 ms after a correct
\* drop runs before the next drag ends
StoreDragEnd(over) ==
    /\ variant = "store"
    /\ active # NoActive
    /\ active' = NoActive
    /\ activeId' = NoActive
    /\ IF over = Null
       THEN UNCHANGED <<pieces, notice, attempts, isCompleted, score>>
       ELSE LET target == targetPosition(split(over))
                pieceId == CHOOSE id \in active : TRUE
                occupied == occupiedPieces(pieces, target)
            IN  IF occupied # {} /\ (CHOOSE p \in occupied : \A q \in occupied : p <= q) # pieceId
                THEN /\ notice' = "Posisi sudah terisi!"
                     /\ UNCHANGED <<pieces, attempts, isCompleted, score>>
                ELSE /\ attempts' = attempts + 1
                     /\ IF /\ strictEq(target.x, pieces[pieceId].correctPosition.x)
                           /\ strictEq(target.y, pieces[pieceId].correctPosition.y)
                        THEN /\ pieces' = movePiece(pieces, pieceId, target)
                             /\ notice' = "Benar!"
                             /\ isCompleted' = completedAfter(pieces', isCompleted)
                             /\ \E bonus \in TimeBonuses :
                                    score' = scoreAfter(pieces', score, bonus)
                        ELSE /\ notice' = "Salah"
                             /\ UNCHANGED <<pieces, isCompleted, score>>
    /\ UNCHANGED <<snapVars, timerVars, configVars, variant, poolItems, isSolved, gestures, gridItems, mode>>

SlotVariants == {"jigsaw", "timed", "store"}
Modes == {"partial", "full"}

\* the state once the load effect (or setLevel) has run
InitSlotGame ==
    /\ variant \in SlotVariants
    /\ IF variant = "store"
       THEN /\ pieces = generatePieces
            /\ mode = "full"
            /\ gridItems = <<>>
            /\ poolItems = <<>>
       ELSE /\ pieces = splitPieces
            /\ mode \in Modes
            /\ \E prePlaced \in SUBSET SlotPieces :
                  /\ Cardinality(prePlaced) =
                        IF mode = "partial" THEN Min(placedCount, totalSlots) ELSE 0
                  /\ gridItems = loadedGrid(prePlaced)
                  /\ poolItems = loadedPool(prePlaced)
    /\ placedPieces = <<>>
    /\ dragState = Null
    /\ dragSourceRef = NoSource
    /\ active = NoActive
    /\ activeId = NoActive
    /\ dragSource = NoSource
    /\ isSolved = FALSE
    /\ gestures = 0
    /\ view = Null
    /\ notice = "none"
    /\ attempts = 0
    /\ isCompleted = FALSE
    /\ score = 0
    /\ pointer = idle
    /\ pieceCount = totalSlots
    /\ config = Null
    /\ image = Null

InitSlot == InitSlotGame /\ timerOff

NextSlot ==
    \/ \E id \in SlotPieces : SlotDragStart(id)
    \/ \E over \in SlotOvers : SlotDragEnd(over)
    \/ \E id \in StorePieces : StoreDragStart(id)
    \/ \E over \in StoreOvers : StoreDragEnd(over)

SpecSlot == InitSlot /\ [][NextSlot]_vars

-----------------------------------------------------------------------------
(* The countdown of PuzzleGame (part_007, "timed") and of puzzle-triangle/page.tsx    *)
(* ("dnd"), next to their drag handlers                                               *)

\* the timeLimit prop, in seconds
MaxTimeLimit == 2

\* the callback of the setInterval of the timer effect; the effect keeps the interval
\* only while !(loading || isSolved || isGameOver || isPaused), and the game is
\* neither loading nor paused here
TimerTick ==
    /\ variant \in {"timed", "dnd"}
    /\ ~isSolved
    /\ ~isGameOver
    /\ timeRemaining' = IF timeRemaining <= 1 THEN 0 ELSE timeRemaining - 1
    /\ isGameOver' = (timeRemaining <= 1)
    /\ UNCHANGED <<snapVars, exactSlotVars, configVars, variant, pieces, poolItems, isSolved,
                   active, activeId, gestures>>

\* useState(timeLimit), useState(false)
InitTimed ==
    /\ \/ InitBoard /\ variant = "dnd"
       \/ InitSlotGame /\ variant = "timed"
    /\ timeRemaining \in 1 .. MaxTimeLimit
    /\ isGameOver = FALSE

NextTimed ==
    \/ TimerTick
    \/ \E id \in SlotPieces : SlotDragStart(id)
    \/ \E over \in SlotOvers : SlotDragEnd(over)
    \/ \E id \in Pieces : DndDragStart(id)
    \/ \E over \in Overs, mouse \in Pointers, delta \in Deltas : DndDragEnd(over, mouse, delta)
    \/ DndDragCancel
    \/ \E id \in Pieces : DndReturnToPool(id)

SpecTimed == InitTimed /\ [][NextTimed]_vars

-----------------------------------------------------------------------------
(* usePuzzleStore of part_007 as its callers can drive it: setLevel / resetLevel,     *)
(* clearLevel, movePiece, incrementAttempts and checkCompletion                       *)

MaxScore == 2200

\* the positions movePiece can be given: null or a cell of the grid
StorePositions == {Null} \cup {Pt(c, r) : c \in 0 .. gridSize - 1, r \in 0 .. gridSize - 1}

storeUnchanged ==
    UNCHANGED <<snapVars, timerVars, configVars, variant, poolItems, isSolved, gestures, gridItems,
                mode, notice, active, activeId>>

\* setLevel(level), also reached through resetLevel
StoreSetLevel ==
    /\ pieces' = generatePieces
    /\ score' = 0
    /\ attempts' = 0
    /\ isCompleted' = FALSE
    /\ storeUnchanged

\* clearLevel
StoreClearLevel ==
    /\ pieces' = <<>>
    /\ score' = 0
    /\ attempts' = 0
    /\ isCompleted' = FALSE
    /\ storeUnchanged

\* movePiece(pieceId, position)
StoreMovePiece(pieceId, position) ==
    /\ pieces' = movePiece(pieces, pieceId, position)
    /\ UNCHANGED <<score, attempts, isCompleted>>
    /\ storeUnchanged

\* incrementAttempts
StoreIncrementAttempts ==
    /\ attempts < MaxGestures
    /\ attempts' = attempts + 1
    /\ UNCHANGED <<pieces, score, isCompleted>>
    /\ storeUnchanged

\* checkCompletion(), called bonus points' worth of time after startTime
StoreCheckCompletion(bonus) ==
    /\ score < MaxScore
    /\ isCompleted' = completedAfter(pieces, isCompleted)
    /\ score' = scoreAfter(pieces, score, bonus)
    /\ UNCHANGED <<pieces, attempts>>
    /\ storeUnchanged

InitStore ==
    /\ InitSlot
    /\ variant = "store"

NextStore ==
    \/ StoreSetLevel
    \/ StoreClearLevel
    \/ \E pieceId \in StorePieces, position \in StorePositions : StoreMovePiece(pieceId, position)
    \/ StoreIncrementAttempts
    \/ \E bonus \in TimeBonuses : StoreCheckCompletion(bonus)

SpecStore == InitStore /\ [][NextStore]_vars

-----------------------------------------------------------------------------
(* Configuration lookup: from the requested piece count to the grid of the puzzle *)

\* largest piece count requested
MaxPieceCount == 50
PieceCounts == 0 .. MaxPieceCount

Grid(r, c) == [rows |-> r, cols |-> c]

\* puzzle-triangle/page.tsx
mapping ==
    (8 :> Grid(2, 2)) @@ (12 :> Grid(2, 3)) @@ (18 :> Grid(3, 3)) @@ (24 :> Grid(3, 4)) @@
    (32 :> Grid(4, 4)) @@ (40 :> Grid(4, 5)) @@ (50 :> Grid(5, 5)) @@ (72 :> Grid(6, 6))

\* mapping[pieceCount] || { rows: 4, cols: 4 }
getPieceDimensions(n) == IF n \in DOMAIN mapping THEN mapping[n] ELSE Grid(4, 4)

\* puzzle-random/page.tsx
GridEntry(n, r, c) == [pieces |-> n, rows |-> r, cols |-> c]
gridMap ==
    << GridEntry(4, 1, 1), GridEntry(8, 1, 2), GridEntry(12, 1, 3), GridEntry(16, 2, 2),
       GridEntry(20, 1, 5), GridEntry(24, 2, 3), GridEntry(32, 2, 4), GridEntry(36, 3, 3),
       GridEntry(40, 2, 5), GridEntry(48, 3, 4), GridEntry(60, 3, 5), GridEntry(64, 4, 4),
       GridEntry(72, 3, 6), GridEntry(80, 4, 5), GridEntry(96, 4, 6), GridEntry(100, 5, 5),
       GridEntry(120, 5, 6), GridEntry(144, 6, 6) >>

\* the fallback loop: the first entry of least |piecesCount - pieces|
RECURSIVE closestFrom(_, _, _)
closestFrom(i, closest, n) ==
    IF i > Len(gridMap) THEN closest
    ELSE IF Abs(n - gridMap[i].pieces) < Abs(n - closest.pieces)
         THEN closestFrom(i + 1, gridMap[i], n)
         ELSE closestFrom(i + 1, closest, n)

getGridForPieceCount(n) ==
    IF \E i \in DOMAIN gridMap : gridMap[i].pieces = n
    THEN LET exact == gridMap[CHOOSE i \in DOMAIN gridMap : gridMap[i].pieces = n]
         IN  Grid(exact.rows, exact.cols)
    ELSE LET closest == closestFrom(1, gridMap[1], n)
         IN  Grid(closest.rows, closest.cols)

\* part_003
PIECE_CONFIGURATIONS ==
    (4 :> Grid(1, 1)) @@ (6 :> Grid(1, 2)) @@ (8 :> Grid(2, 1)) @@ (9 :> Grid(2, 2)) @@
    (12 :> Grid(2, 2)) @@ (15 :> Grid(2, 3)) @@ (16 :> Grid(2, 3)) @@ (18 :> Grid(3, 2)) @@
    (20 :> Grid(3, 3)) @@ (24 :> Grid(3, 3)) @@ (25 :> Grid(3, 4)) @@ (28 :> Grid(3, 4)) @@
    (30 :> Grid(4, 3)) @@ (32 :> Grid(4, 3)) @@ (35 :> Grid(4, 4)) @@ (36 :> Grid(4, 4)) @@
    (40 :> Grid(4, 4)) @@ (42 :> Grid(4, 5)) @@ (45 :> Grid(4, 5)) @@ (48 :> Grid(5, 4)) @@
    (50 :> Grid(5, 5))

\* Object.keys(...).map(Number).sort((a, b) => a - b)
RECURSIVE sorted(_)
sorted(S) == IF S = {} THEN <<>> ELSE <<SetMin(S)>> \o sorted(S \ {SetMin(S)})
AVAILABLE_PIECE_COUNTS == sorted(DOMAIN PIECE_CONFIGURATIONS)

\* the head of createTrianglePuzzle of part_003: the grid, or the Error it throws
createTrianglePuzzle(totalPieces) ==
    IF totalPieces \notin DOMAIN PIECE_CONFIGURATIONS
    THEN [error |-> "No configuration found", pieces |-> totalPieces,
          available |-> AVAILABLE_PIECE_COUNTS]
    ELSE PIECE_CONFIGURATIONS[totalPieces]

\* PuzzleTrianglePage renders: const { rows, cols } = getPieceDimensions(pieceCount)
DndGetPieceDimensions ==
    /\ variant = "dnd"
    /\ config = Null
    /\ config' = getPieceDimensions(pieceCount)
    /\ UNCHANGED <<snapVars, timerVars, exactSlotVars, variant, pieces, poolItems, active, activeId,
                   isSolved, gestures, pieceCount, image>>

\* PuzzleRandomPage renders: const { rows, cols } = getGridForPieceCount(piecesCount)
DocGetGridForPieceCount ==
    /\ variant = "doc"
    /\ config = Null
    /\ config' = getGridForPieceCount(pieceCount)
    /\ UNCHANGED <<snapVars, timerVars, exactSlotVars, variant, pieces, poolItems, active, activeId,
                   isSolved, gestures, pieceCount, image>>

\* the load effect of part_003 calls createTrianglePuzzle(imageSrc, totalPieces)
CanvasCreateTrianglePuzzle ==
    /\ variant = "canvas"
    /\ config = Null
    /\ config' = createTrianglePuzzle(pieceCount)
    /\ UNCHANGED <<snapVars, timerVars, exactSlotVars, variant, pieces, poolItems, active, activeId,
                   isSolved, gestures, pieceCount, image>>

\* a component about to be mounted with some piece count
InitConfig ==
    /\ variant \in Variants
    /\ pieceCount \in PieceCounts
    /\ config = Null
    /\ image = Null
    /\ pieces = <<>>
    /\ poolItems = <<>>
    /\ placedPieces = <<>>
    /\ dragState = Null
    /\ dragSourceRef = NoSource
    /\ active = NoActive
    /\ activeId = NoActive
    /\ dragSource = NoSource
    /\ isSolved = FALSE
    /\ gestures = 0
    /\ view = Null
    /\ gridItems = <<>>
    /\ mode = "none"
    /\ notice = "none"
    /\ attempts = 0
    /\ isCompleted = FALSE
    /\ score = 0
    /\ timeRemaining = 0
    /\ isGameOver = FALSE
    /\ pointer = idle

NextConfig ==
    \/ DndGetPieceDimensions
    \/ DocGetGridForPieceCount
    \/ CanvasCreateTrianglePuzzle

SpecConfig == InitConfig /\ [][NextConfig]_vars

-----------------------------------------------------------------------------
(* The partition of the image into triangular pieces and the adjacency resolver.
   "canvas": createTrianglePuzzle / setupNeighbors of part_002 (same code in "dnd")
   "doc":    puzzle-random/page.tsx
   "shapes": PuzzleRandomShapes of part_003
   Coordinates are kept in 1/Unit of a pixel, which holds every corner, midpoint and
   interior point of the grids below as an integer. *)

Unit == 60
maxImageSize == 800
Max(a, b) == IF a > b THEN a ELSE b

\* images offered to the components (img.width x img.height, in pixels)
Images == {[width |-> 800, height |-> 800], [width |-> 800, height |-> 400],
           [width |-> 1600, height |-> 800]}

\* width and height the grid is laid over: img.width * imageScale in part_003 and
\* puzzle-random, img.width in part_002 and puzzle-triangle
scaledSize(v, img) ==
    LET maxDimension == Max(img.width, img.height)
    IN  IF v \in {"doc", "shapes"} /\ maxDimension > maxImageSize
        THEN [width |-> (img.width * Unit * maxImageSize) \div maxDimension,
              height |-> (img.height * Unit * maxImageSize) \div maxDimension]
        ELSE [width |-> img.width * Unit, height |-> img.height * Unit]

\* the corners of cell (row, col)
cellCorners(size, grid, row, col) ==
    LET cw == size.width \div grid.cols
        ch == size.height \div grid.rows
    IN  [topLeft |-> Pt(col * cw, row * ch), topRight |-> Pt((col + 1) * cw, row * ch),
         bottomLeft |-> Pt(col * cw, (row + 1) * ch),
         bottomRight |-> Pt((col + 1) * cw, (row + 1) * ch)]

\* part_002, puzzle-triangle: two triangles, the diagonal alternating with row + col
diagonalTriangles(k, row, col) ==
    IF (row + col) % 2 = 0
    THEN << <<k.topLeft, k.topRight, k.bottomRight>>, <<k.topLeft, k.bottomRight, k.bottomLeft>> >>
    ELSE << <<k.topLeft, k.topRight, k.bottomLeft>>, <<k.topRight, k.bottomRight, k.bottomLeft>> >>

\* puzzle-random: generateTrianglePattern, a fan of four triangles from an interior point
fanTriangles(k, row, col) ==
    LET cellW == k.topRight.x - k.topLeft.x
        cellH == k.bottomLeft.y - k.topLeft.y
        interior == Pt(k.topLeft.x + (cellW * cx(patternType(row, col))) \div 100,
                       k.topLeft.y + (cellH * cy(patternType(row, col))) \div 100)
    IN  << <<k.topLeft, k.topRight, interior>>, <<k.topRight, k.bottomRight, interior>>,
           <<k.bottomRight, k.bottomLeft, interior>>, <<k.bottomLeft, k.topLeft, interior>> >>

\* part_003: generateTrianglePattern, six patterns of two or four triangles
variedTriangles(k, row, col) ==
    LET tl == k.topLeft
        tr == k.topRight
        bl == k.bottomLeft
        br == k.bottomRight
        t == patternType(row, col)
        midTop == Pt((tl.x + tr.x) \div 2, tl.y)
        midBottom == Pt((bl.x + br.x) \div 2 + ((br.x - bl.x) * 2) \div 10, bl.y)
        midLeft == Pt(tl.x, (tl.y + bl.y) \div 2)
        midRight == Pt(tr.x, (tr.y + br.y) \div 2 + ((br.y - tr.y) * 2) \div 10)
        center == Pt((tl.x + tr.x + bl.x + br.x) \div 4, (tl.y + tr.y + bl.y + br.y) \div 4)
        offsetPoint == Pt(tl.x + ((br.x - tl.x) * 7) \div 10, tl.y + ((br.y - tl.y) * 3) \div 10)
    IN  CASE t = 0 -> << <<tl, tr, br>>, <<tl, br, bl>> >>
          [] t = 1 -> << <<tl, tr, bl>>, <<tr, br, bl>> >>
          [] t = 2 -> << <<tl, midTop, midBottom>>, <<midTop, tr, midBottom>>,
                         <<tr, midBottom, br>>, <<midBottom, bl, br>> >>
          [] t = 3 -> << <<tl, tr, midRight>>, <<tl, midRight, midLeft>>,
                         <<midLeft, midRight, br>>, <<midLeft, br, bl>> >>
          [] t = 4 -> << <<tl, tr, center>>, <<tr, br, center>>,
                         <<br, bl, center>>, <<bl, tl, center>> >>
          [] OTHER -> << <<tl, tr, offsetPoint>>, <<tr, br, offsetPoint>>,
                         <<offsetPoint, br, bl>>, <<tl, offsetPoint, bl>> >>

\* the triangles of one cell, as component v cuts it
cellTriangles(v, size, grid, row, col) ==
    LET k == cellCorners(size, grid, row, col)
    IN  CASE v = "doc" -> fanTriangles(k, row, col)
          [] v = "shapes" -> variedTriangles(k, row, col)
          [] OTHER -> diagonalTriangles(k, row, col)

\* the triangles of the cells from cell number n on (row-major), each with its row,
\* col and index in the cell
RECURSIVE trianglesFrom(_, _, _, _)
trianglesFrom(v, size, grid, n) ==
    IF n >= grid.rows * grid.cols THEN <<>>
    ELSE LET row == n \div grid.cols
             col == n % grid.cols
             ts == cellTriangles(v, size, grid, row, col)
         IN  [i \in 1 .. Len(ts) |-> [triangle |-> ts[i], row |-> row, col |-> col,
                                      index |-> i - 1]]
             \o trianglesFrom(v, size, grid, n + 1)

allTriangles(v, size, grid) == trianglesFrom(v, size, grid, 0)

\* a comparison without tolerance: the points are the same point
nearMutant(p1, p2, tenths) == p1 = p2

\* Math.abs(p1.x - p2.x) < tolerance && Math.abs(p1.y - p2.y) < tolerance, the
\* tolerance given in tenths of a pixel
near(p1, p2, tenths) ==
    /\ Abs(p1.x - p2.x) * 10 < tenths * Unit
    /\ Abs(p1.y - p2.y) * 10 < tenths * Unit

\* part_002, puzzle-triangle: piece.polygon.filter(p1 => otherPiece.polygon.some(...))
strictShared(poly, other) ==
    SelectSeq(poly, LAMBDA p1 : \E i \in 1 .. Len(other) : near(p1, other[i], 1))

\* `${sharedPoints[0].x},${sharedPoints[0].y}-${sharedPoints[1].x},${sharedPoints[1].y}`
strictEdgeKey(sp) == <<sp[1].x, sp[1].y, sp[2].x, sp[2].y>>

\* puzzle-random, part_003: the points of piece.polygon within the tolerance of a point
\* of otherPiece.polygon, each pushed once (two points within 0.01 px are one point)
RECURSIVE tolerantSharedFrom(_, _, _, _)
tolerantSharedFrom(poly, other, i, acc) ==
    IF i > Len(poly) THEN acc
    ELSE LET p1 == poly[i]
             hit == \E j \in 1 .. Len(other) : near(p1, other[j], 10)
             isDuplicate == \E s \in 1 .. Len(acc) :
                                /\ Abs(acc[s].x - p1.x) * 100 < Unit
                                /\ Abs(acc[s].y - p1.y) * 100 < Unit
         IN  tolerantSharedFrom(poly, other, i + 1,
                                IF hit /\ ~isDuplicate THEN Append(acc, p1) ELSE acc)

tolerantShared(poly, other) == tolerantSharedFrom(poly, other, 1, <<>>)

\* the comparator of sharedPoints.sort: by x when the x differ by more than 0.1, else by y
pointBefore(a, b) ==
    IF Abs(a.x - b.x) * 10 > Unit THEN a.x < b.x ELSE a.y < b.y

RECURSIVE sortPoints(_)
sortPoints(ps) ==
    IF Len(ps) <= 1 THEN ps
    ELSE LET first == CHOOSE i \in 1 .. Len(ps) :
                          /\ \A j \in 1 .. Len(ps) : ~pointBefore(ps[j], ps[i])
                          /\ \A j \in 1 .. i - 1 : pointBefore(ps[i], ps[j])
                                                   \/ pointBefore(ps[j], ps[i])
             rest == [k \in 1 .. Len(ps) - 1 |-> IF k < first THEN ps[k] ELSE ps[k + 1]]
         IN  <<ps[first]>> \o sortPoints(rest)

\* Math.round(x * 10) of a coordinate held in 1/Unit px
roundTenths(u) == (u * 20 + Unit) \div (2 * Unit)

\* `${Math.round(sp[0].x * 10)},${Math.round(sp[0].y * 10)}-${...sp[1]...}`
tolerantEdgeKey(sp) ==
    <<roundTenths(sp[1].x), roundTenths(sp[1].y), roundTenths(sp[2].x), roundTenths(sp[2].y)>>

\* neighbors[edgeKey] = id on a plain object: a later write replaces an earlier one
setKey(obj, key, id) ==
    [k \in DOMAIN obj \cup {key} |-> IF k = key THEN id ELSE obj[k]]

\* the least number of shared points that makes two pieces neighbours in puzzle-random
\* and part_003 (sharedPoints.length >= 2); part_002 and puzzle-triangle ask for exactly 2
minShared == 2

\* a resolver that links two pieces as soon as one point is shared
linkKeyMutant(v, ps, i, j) ==
    LET lo == IF i < j THEN i ELSE j
        hi == IF i < j THEN j ELSE i
        sp == tolerantShared(ps[lo].polygon, ps[hi].polygon)
    IN  IF Len(sp) >= 1
        THEN tolerantEdgeKey(sortPoints(<<sp[1], sp[Len(sp)]>>))
        ELSE Null

\* the edge key under which piece i records piece j, or Null when it records nothing
linkKey(v, ps, i, j) ==
    IF v \in {"doc", "shapes"}
    THEN LET lo == IF i < j THEN i ELSE j
             hi == IF i < j THEN j ELSE i
             sp == tolerantShared(ps[lo].polygon, ps[hi].polygon)
         IN  IF Len(sp) >= minShared THEN tolerantEdgeKey(sortPoints(sp)) ELSE Null
    ELSE LET sp == strictShared(ps[i].polygon, ps[j].polygon)
         IN  IF Len(sp) = 2 THEN strictEdgeKey(sp) ELSE Null

\* the neighbors object of piece i after setupNeighbors: the partners write in the order
\* of their index
RECURSIVE neighborsFrom(_, _, _, _, _)
neighborsFrom(v, ps, i, j, obj) ==
    IF j > Len(ps) THEN obj
    ELSE LET key == IF i = j THEN Null ELSE linkKey(v, ps, i, j)
         IN  neighborsFrom(v, ps, i, j + 1,
                           IF key = Null THEN obj ELSE setKey(obj, key, ps[j].id))

setupNeighbors(v, ps) ==
    [i \in 1 .. Len(ps) |-> [ps[i] EXCEPT !.neighbors = neighborsFrom(v, ps, i, 1, <<>>)]]

\* createTrianglePiece: id `piece-${row}-${col}-${triangleIndex}`, polygon, no neighbours
createTrianglePiece(t) ==
    [id |-> [row |-> t.row, col |-> t.col, triangleIndex |-> t.index],
     polygon |-> t.triangle, neighbors |-> <<>>]

\* allTriangles.slice(0, Math.min(totalPieces, allTriangles.length)) in part_003; the
\* other components keep every triangle
selectedTriangles(v, all, totalPieces) ==
    IF v = "shapes" THEN SubSeq(all, 1, Min(totalPieces, Len(all))) ELSE all

\* the pieces createTrianglePuzzle resolves with
partitionPieces(v, img, grid, totalPieces) ==
    LET all == allTriangles(v, scaledSize(v, img), grid)
        selected == selectedTriangles(v, all, totalPieces)
    IN  setupNeighbors(v, [i \in 1 .. Len(selected) |-> createTrianglePiece(selected[i])])

MaxPartitionCount == 20
MaxGridSide == 3
PartitionCounts == 0 .. MaxPartitionCount
CanvasGrids == {Grid(r, c) : r \in 1 .. MaxGridSide, c \in 1 .. MaxGridSide}
PartitionVariants == {"canvas", "dnd", "doc", "shapes"}

partitionUnchanged ==
    UNCHANGED <<snapVars, timerVars, exactSlotVars, variant, poolItems, active, activeId, isSolved,
                gestures, pieceCount, image>>

\* part_002: the load effect, createTrianglePuzzle(imageSrc, rows, cols)
CanvasLoadPuzzle ==
    /\ variant = "canvas"
    /\ pieces = <<>>
    /\ pieces' = partitionPieces(variant, image, config, pieceCount)
    /\ config' = config
    /\ partitionUnchanged

\* puzzle-triangle: getPieceDimensions(pieceCount), then the load effect
DndLoadPuzzle ==
    /\ variant = "dnd"
    /\ config = Null
    /\ config' = getPieceDimensions(pieceCount)
    /\ pieces' = partitionPieces(variant, image, config', pieceCount)
    /\ partitionUnchanged

\* puzzle-random: getGridForPieceCount(piecesCount), then the load effect
DocLoadPuzzle ==
    /\ variant = "doc"
    /\ config = Null
    /\ config' = getGridForPieceCount(pieceCount)
    /\ pieces' = partitionPieces(variant, image, config', pieceCount)
    /\ partitionUnchanged

\* part_003: createTrianglePuzzle(imageSrc, totalPieces); a count without configuration
\* rejects and no piece is set
ShapesLoadPuzzle ==
    /\ variant = "shapes"
    /\ config = Null
    /\ config' = createTrianglePuzzle(pieceCount)
    /\ pieces' = IF pieceCount \in DOMAIN PIECE_CONFIGURATIONS
                 THEN partitionPieces(variant, image, config', pieceCount)
                 ELSE <<>>
    /\ partitionUnchanged

\* a component mounted with an image and a grid (part_002) or a piece count
InitPartition ==
    /\ variant \in PartitionVariants
    /\ image \in Images
    /\ IF variant = "canvas"
       THEN pieceCount = 0 /\ config \in CanvasGrids
       ELSE pieceCount \in PartitionCounts /\ config = Null
    /\ pieces = <<>>
    /\ poolItems = <<>>
    /\ placedPieces = <<>>
    /\ dragState = Null
    /\ dragSourceRef = NoSource
    /\ active = NoActive
    /\ activeId = NoActive
    /\ dragSource = NoSource
    /\ isSolved = FALSE
    /\ gestures = 0
    /\ view = Null
    /\ gridItems = <<>>
    /\ mode = "none"
    /\ notice = "none"
    /\ attempts = 0
    /\ isCompleted = FALSE
    /\ score = 0
    /\ timeRemaining = 0
    /\ isGameOver = FALSE
    /\ pointer = idle

NextPartition ==
    \/ CanvasLoadPuzzle
    \/ DndLoadPuzzle
    \/ DocLoadPuzzle
    \/ ShapesLoadPuzzle

SpecPartition == InitPartition /\ [][NextPartition]_vars

-----------------------------------------------------------------------------
(* setupNeighbors on polygons that floating-point construction has left slightly apart:
   the triangles of a grid, one of them displaced by 0.05 px along x, y or both *)

MaxResolveSide == 2
ResolveGrids == {Grid(r, c) : r \in 1 .. MaxResolveSide, c \in 1 .. MaxResolveSide}

\* 0.05 px
twentieth == Unit \div 20
Displacements ==
    {Pt(a, b) : a \in {-twentieth, 0, twentieth}, b \in {-twentieth, 0, twentieth}} \ {Pt(0, 0)}

displaced(poly, d) == [k \in 1 .. Len(poly) |-> Pt(poly[k].x + d.x, poly[k].y + d.y)]

\* the pieces handed to setupNeighbors: those of the grid, the n-th displaced by d
displacedPieces(v, img, grid, n, d) ==
    LET all == allTriangles(v, scaledSize(v, img), grid)
    IN  [i \in 1 .. Len(all) |->
            createTrianglePiece(IF i = n THEN [all[i] EXCEPT !.triangle = displaced(@, d)]
                                ELSE all[i])]

resolveUnchanged ==
    UNCHANGED <<snapVars, timerVars, exactSlotVars, variant, poolItems, active, activeId, isSolved,
                pieceCount, config, image>>

\* puzzle-triangle: setupNeighbors(pieces, rows, cols)
DndSetupNeighbors ==
    /\ variant = "dnd"
    /\ gestures = 0
    /\ gestures' = 1
    /\ pieces' = setupNeighbors(variant, pieces)
    /\ resolveUnchanged

\* puzzle-random: setupNeighbors(pieces, 1.0)
DocSetupNeighbors ==
    /\ variant = "doc"
    /\ gestures = 0
    /\ gestures' = 1
    /\ pieces' = setupNeighbors(variant, pieces)
    /\ resolveUnchanged

InitResolve ==
    /\ variant \in {"dnd", "doc"}
    /\ image \in Images
    /\ config \in ResolveGrids
    /\ \E d \in Displacements :
          \E n \in 1 .. Len(allTriangles(variant, scaledSize(variant, image), config)) :
              /\ pieceCount = n
              /\ pieces = displacedPieces(variant, image, config, n, d)
    /\ poolItems = <<>>
    /\ placedPieces = <<>>
    /\ dragState = Null
    /\ dragSourceRef = NoSource
    /\ active = NoActive
    /\ activeId = NoActive
    /\ dragSource = NoSource
    /\ isSolved = FALSE
    /\ gestures = 0
    /\ view = Null
    /\ gridItems = <<>>
    /\ mode = "none"
    /\ notice = "none"
    /\ attempts = 0
    /\ isCompleted = FALSE
    /\ score = 0
    /\ timeRemaining = 0
    /\ isGameOver = FALSE
    /\ pointer = idle

NextResolve ==
    \/ DndSetupNeighbors
    \/ DocSetupNeighbors

SpecResolve == InitResolve /\ [][NextResolve]_vars

-----------------------------------------------------------------------------
(* The tab/slot outlines of PuzzleJigsaw (puzzleGame-berhasil.tsx), usePuzzleShapes =
   true.  Path coordinates are kept in 1/Milli of a pixel. *)

Milli == 1000

\* n * num / den
scaled(n, num, den) == (n * num) \div den

\* generateTabPattern: horizontal[row][col] for row 0 .. rows, vertical[row][col] for
\* col 0 .. cols
generateTabPattern(rs, cs) ==
    [horizontal |-> [row \in 0 .. rs |-> [col \in 0 .. cs - 1 |->
                        IF row = 0 \/ row = rs THEN FALSE ELSE (row + col) % 2 = 0]],
     vertical |-> [row \in 0 .. rs - 1 |-> [col \in 0 .. cs |->
                        IF col = 0 \/ col = cs THEN FALSE ELSE (row + col + 1) % 2 = 0]]]

\* an edge-flag rule that reads every edge as the piece above / to the left does
edgeFlagsMutant(row, col, rs, cs, tabPattern) ==
    [hasTopSlot |-> FALSE,
     hasTopTab |-> row > 0 /\ tabPattern.horizontal[row][col],
     hasBottomTab |-> row < rs - 1 /\ tabPattern.horizontal[row + 1][col],
     hasBottomSlot |-> FALSE,
     hasLeftSlot |-> FALSE,
     hasLeftTab |-> col > 0 /\ tabPattern.vertical[row][col],
     hasRightTab |-> col < cs - 1 /\ tabPattern.vertical[row][col + 1],
     hasRightSlot |-> FALSE]

\* generatePuzzlePath: the tab/slot flags of the four edges of piece (row, col)
edgeFlags(row, col, rs, cs, tabPattern) ==
    [hasTopSlot |-> row > 0 /\ tabPattern.horizontal[row][col],
     hasTopTab |-> row > 0 /\ ~tabPattern.horizontal[row][col],
     hasBottomTab |-> row < rs - 1 /\ tabPattern.horizontal[row + 1][col],
     hasBottomSlot |-> row < rs - 1 /\ ~tabPattern.horizontal[row + 1][col],
     hasLeftSlot |-> col > 0 /\ tabPattern.vertical[row][col],
     hasLeftTab |-> col > 0 /\ ~tabPattern.vertical[row][col],
     hasRightTab |-> col < cs - 1 /\ tabPattern.vertical[row][col + 1],
     hasRightSlot |-> col < cs - 1 /\ ~tabPattern.vertical[row][col + 1]]

\* the path commands: M / L to a point, C with two control points to a point
MoveTo(px, py) == [op |-> "M", to |-> Pt(px, py)]
LineTo(px, py) == [op |-> "L", to |-> Pt(px, py)]
CurveTo(ax, ay, bx, by, px, py) ==
    [op |-> "C", c1 |-> Pt(ax, ay), c2 |-> Pt(bx, by), to |-> Pt(px, py)]

\* generatePuzzlePath: the outline of piece (row, col), in the piece's own frame
generatePuzzlePath(width, height, row, col, rs, cs, tabPattern) ==
    LET tabSize == scaled(Min(width, height), 18, 100)
        tabDepth == scaled(tabSize, 9, 10)
        d4 == scaled(tabDepth, 4, 10)
        f == edgeFlags(row, col, rs, cs, tabPattern)
        w35 == scaled(width, 35, 100)
        w40 == scaled(width, 4, 10)
        w50 == scaled(width, 5, 10)
        w60 == scaled(width, 6, 10)
        w65 == scaled(width, 65, 100)
        h35 == scaled(height, 35, 100)
        h40 == scaled(height, 4, 10)
        h50 == scaled(height, 5, 10)
        h60 == scaled(height, 6, 10)
        h65 == scaled(height, 65, 100)
        top == IF f.hasTopTab
               THEN << LineTo(w35, 0), CurveTo(w35, -d4, w40, -tabDepth, w50, -tabDepth),
                       CurveTo(w60, -tabDepth, w65, -d4, w65, 0), LineTo(width, 0) >>
               ELSE IF f.hasTopSlot
               THEN << LineTo(w35, 0), CurveTo(w35, d4, w40, tabDepth, w50, tabDepth),
                       CurveTo(w60, tabDepth, w65, d4, w65, 0), LineTo(width, 0) >>
               ELSE << LineTo(width, 0) >>
        right == IF f.hasRightTab
                 THEN << LineTo(width, h35),
                         CurveTo(width + d4, h35, width + tabDepth, h40, width + tabDepth, h50),
                         CurveTo(width + tabDepth, h60, width + d4, h65, width, h65),
                         LineTo(width, height) >>
                 ELSE IF f.hasRightSlot
                 THEN << LineTo(width, h35),
                         CurveTo(width - d4, h35, width - tabDepth, h40, width - tabDepth, h50),
                         CurveTo(width - tabDepth, h60, width - d4, h65, width, h65),
                         LineTo(width, height) >>
                 ELSE << LineTo(width, height) >>
        bottom == IF f.hasBottomTab
                  THEN << LineTo(w65, height),
                          CurveTo(w65, height + d4, w60, height + tabDepth, w50, height + tabDepth),
                          CurveTo(w40, height + tabDepth, w35, height + d4, w35, height),
                          LineTo(0, height) >>
                  ELSE IF f.hasBottomSlot
                  THEN << LineTo(w65, height),
                          CurveTo(w65, height - d4, w60, height - tabDepth, w50, height - tabDepth),
                          CurveTo(w40, height - tabDepth, w35, height - d4, w35, height),
                          LineTo(0, height) >>
                  ELSE << LineTo(0, height) >>
        left == IF f.hasLeftTab
                THEN << LineTo(0, h65), CurveTo(-d4, h65, -tabDepth, h60, -tabDepth, h50),
                        CurveTo(-tabDepth, h40, -d4, h35, 0, h35), LineTo(0, 0) >>
                ELSE IF f.hasLeftSlot
                THEN << LineTo(0, h65), CurveTo(d4, h65, tabDepth, h60, tabDepth, h50),
                        CurveTo(tabDepth, h40, d4, h35, 0, h35), LineTo(0, 0) >>
                ELSE << LineTo(0, 0) >>
    IN  <<MoveTo(0, 0)>> \o top \o right \o bottom \o left

\* splitImage: one piece per cell, row by row, its image clipped by its outline
splitImage(img, rs, cs) ==
    LET pieceWidth == (img.width * Milli) \div cs
        pieceHeight == (img.height * Milli) \div rs
        tabPattern == generateTabPattern(rs, cs)
    IN  [n \in 1 .. rs * cs |->
            LET row == (n - 1) \div cs
                col == (n - 1) % cs
            IN  [id |-> n - 1, correctIndex |-> n - 1, row |-> row, col |-> col,
                 baseWidth |-> pieceWidth, baseHeight |-> pieceHeight,
                 clip |-> generatePuzzlePath(pieceWidth, pieceHeight, row, col, rs, cs,
                                             tabPattern)]]

MaxTabSide == 4
TabGrids == {Grid(r, c) : r \in 1 .. MaxTabSide, c \in 1 .. MaxTabSide}
TabImages == {[width |-> 600, height |-> 600], [width |-> 600, height |-> 300],
              [width |-> 300, height |-> 600], [width |-> 900, height |-> 600]}

\* PuzzleJigsaw: the load effect, splitImage(imageSrc, rows, cols, usePuzzleShapes)
JigsawSplitImage ==
    /\ variant = "jigsaw"
    /\ pieces = <<>>
    /\ pieces' = splitImage(image, config.rows, config.cols)
    /\ UNCHANGED <<snapVars, timerVars, exactSlotVars, variant, poolItems, active, activeId, isSolved,
                   gestures, pieceCount, config, image>>

\* PuzzleJigsaw mounted with an image and a grid
InitTabs ==
    /\ variant = "jigsaw"
    /\ image \in TabImages
    /\ config \in TabGrids
    /\ pieceCount = config.rows * config.cols
    /\ pieces = <<>>
    /\ poolItems = <<>>
    /\ placedPieces = <<>>
    /\ dragState = Null
    /\ dragSourceRef = NoSource
    /\ active = NoActive
    /\ activeId = NoActive
    /\ dragSource = NoSource
    /\ isSolved = FALSE
    /\ gestures = 0
    /\ view = Null
    /\ gridItems = <<>>
    /\ mode = "none"
    /\ notice = "none"
    /\ attempts = 0
    /\ isCompleted = FALSE
    /\ score = 0
    /\ timeRemaining = 0
    /\ isGameOver = FALSE
    /\ pointer = idle

NextTabs == JigsawSplitImage

SpecTabs == InitTabs /\ [][NextTabs]_vars

-----------------------------------------------------------------------------
(* "voronoi": PuzzleRandomShapes of part_005.  A piece snaps to its own correct position
   and locks there; there are no groups.  The pieces are cut at random (seeded by
   Date.now()); the model gives them the correct positions of the triangle grid.
   draggedPiece and dragOffset are held together in dragState. *)

voronoiSnapThreshold == 30

voronoiPieces == [p \in Pieces |-> [correctPosition |-> correctPositionOf("canvas", p)]]

\* handlePoolPieceMouseDown
VoronoiPoolPieceMouseDown(id) ==
    /\ variant = "voronoi"
    /\ pointer.status # "down"
    /\ pointer' = pressed(id, "away", "pool")
    /\ gestures < MaxGestures
    /\ gestures' = gestures + 1
    /\ view.poolItems[id] > 0
    /\ dragState' = [primary |-> id, pieceIds |-> {id}, offset |-> Origin]
    /\ UNCHANGED <<exactSlotVars, configVars, timerVars, variant, pieces, poolItems, placedPieces,
                   dragSourceRef, active, activeId, dragSource>>
    /\ isSolved' = (isSolved \/ lockedCountSolved(poolItems, placedPieces))
    /\ view' = ViewOf(poolItems, placedPieces, dragState', activeId, dragSource)

\* handlePlacedPieceMouseDown: a locked piece cannot be picked up
VoronoiPlacedPieceMouseDown(id, g) ==
    /\ variant = "voronoi"
    /\ pointer.status # "down"
    /\ pointer' = pressed(id, "board", "placed")
    /\ gestures < MaxGestures
    /\ gestures' = gestures + 1
    /\ IsPlaced(view.placedPieces, id)
    /\ dragState' = IF view.placedPieces[id].isLocked THEN dragState
                    ELSE [primary |-> id, pieceIds |-> {id}, offset |-> g]
    /\ UNCHANGED <<exactSlotVars, configVars, timerVars, variant, pieces, poolItems, placedPieces,
                   dragSourceRef, active, activeId, dragSource>>
    /\ isSolved' = (isSolved \/ lockedCountSolved(poolItems, placedPieces))
    /\ view' = ViewOf(poolItems, placedPieces, dragState', activeId, dragSource)

\* handleMouseMove (onMouseMove of the canvas): a continuous event, rendered later
VoronoiMouseMove(mouse) ==
    /\ variant = "voronoi"
    /\ pointer' = moved(pointer, "board")
    /\ view.dragState # Null
    /\ InsideCanvas(mouse)
    /\ LET draggedPiece == view.dragState.primary
           dragOffset == view.dragState.offset
       IN  /\ placedPieces' =
                 [placedPieces EXCEPT ![draggedPiece] =
                     [position |-> Pt(mouse.x - dragOffset.x, mouse.y - dragOffset.y),
                      isLocked |-> FALSE]]
           /\ poolItems' = poolFilter(poolItems, {draggedPiece})
    /\ PositionsInBoard(placedPieces')
    /\ UNCHANGED <<exactSlotVars, configVars, timerVars, variant, pieces, dragState, dragSourceRef,
                   active, activeId, dragSource, isSolved, view, gestures>>

\* handleMouseUp of part_005, bound to onMouseUp and to onMouseLeave of the canvas
voronoiHandleMouseUp ==
    /\ variant = "voronoi"
    /\ view.dragState # Null
    /\ LET draggedPiece == view.dragState.primary
           placed == view.placedPieces[draggedPiece]
       IN  placedPieces' =
               IF /\ placed # NoEntry
                  /\ distance2(placed.position, correctPosition(draggedPiece))
                         < voronoiSnapThreshold * voronoiSnapThreshold
               THEN [placedPieces EXCEPT ![draggedPiece] =
                        [position |-> correctPosition(draggedPiece), isLocked |-> TRUE]]
               ELSE placedPieces
    /\ dragState' = Null
    /\ UNCHANGED <<exactSlotVars, configVars, timerVars, variant, pieces, poolItems, dragSourceRef,
                   active, activeId, dragSource, gestures>>
    /\ isSolved' = (isSolved \/ lockedCountSolved(poolItems, placedPieces'))
    /\ view' = ViewOf(poolItems, placedPieces', dragState', activeId, dragSource)

VoronoiMouseUp == voronoiHandleMouseUp /\ pointer' = released(pointer, "board")

VoronoiMouseLeave == voronoiHandleMouseUp /\ pointer' = moved(pointer, "away")

\* the button is released while the pointer is off the canvas: the canvas gets no event
VoronoiReleaseOutside ==
    /\ variant = "voronoi"
    /\ pointer.status = "down"
    /\ pointer.over = "away"
    /\ pointer' = released(pointer, "away")
    /\ UNCHANGED <<exactSlotVars, configVars, timerVars, variant, pieces, poolItems, placedPieces,
                   dragState, dragSourceRef, active, activeId, dragSource, isSolved,
                   gestures, view>>

\* handleReturnToPool (onDoubleClick of a rendered placed piece): refused when locked
VoronoiReturnToPool(id) ==
    /\ variant = "voronoi"
    /\ UNCHANGED pointer
    /\ view.dragState = Null    \* the press and release of the double click are over
    /\ gestures < MaxGestures
    /\ gestures' = gestures + 1
    /\ IsPlaced(view.placedPieces, id)
    /\ IF view.placedPieces[id].isLocked
       THEN UNCHANGED <<placedPieces, poolItems>>
       ELSE /\ placedPieces' = returnedPlaced(placedPieces, {id})
            /\ poolItems' = poolAppend(poolItems, {id})
    /\ CopiesInBound(poolItems')
    /\ UNCHANGED <<exactSlotVars, configVars, timerVars, variant, pieces, dragState, dragSourceRef,
                   active, activeId, dragSource>>
    /\ isSolved' = (isSolved \/ lockedCountSolved(poolItems', placedPieces'))
    /\ view' = ViewOf(poolItems', placedPieces', dragState, activeId, dragSource)

\* React renders the pending updates of move events; the completion effect runs
VoronoiRender ==
    /\ variant = "voronoi"
    /\ Render

\* mode = 'empty': every piece in the pool
InitVoronoi ==
    /\ variant = "voronoi"
    /\ pieces = voronoiPieces
    /\ poolItems = [p \in Pieces |-> 1]
    /\ placedPieces = NoPlaced
    /\ dragState = Null
    /\ dragSourceRef = NoSource
    /\ active = NoActive
    /\ activeId = NoActive
    /\ dragSource = NoSource
    /\ isSolved = FALSE
    /\ gestures = 0
    /\ view = ViewOf([p \in Pieces |-> 1], NoPlaced, Null, NoActive, NoSource)
    /\ gridItems = <<>>
    /\ mode = "none"
    /\ notice = "none"
    /\ attempts = 0
    /\ isCompleted = FALSE
    /\ score = 0
    /\ timeRemaining = 0
    /\ isGameOver = FALSE
    /\ pointer = idle
    /\ pieceCount = NumPieces
    /\ config = Null
    /\ image = [width |-> imageWidth, height |-> imageHeight]

NextVoronoi ==
    \/ \E id \in Pieces : VoronoiPoolPieceMouseDown(id)
    \/ \E id \in Pieces, g \in GrabOffsets : VoronoiPlacedPieceMouseDown(id, g)
    \/ \E mouse \in Pointers : VoronoiMouseMove(mouse)
    \/ VoronoiMouseUp
    \/ VoronoiMouseLeave
    \/ VoronoiReleaseOutside
    \/ \E id \in Pieces : VoronoiReturnToPool(id)
    \/ VoronoiRender

SpecVoronoi == InitVoronoi /\ [][NextVoronoi]_vars

-----------------------------------------------------------------------------
(* Properties *)

\* the state on screen is the current state: no update of a move event is pending
Rendered == view = ViewOf(poolItems, placedPieces, dragState, activeId, dragSource)

\* no press, drag or dnd-kit session is in progress
NoDragInProgress == dragState = Null /\ view.dragState = Null /\ active = NoActive

\* C1: in every reachable state, the states between picking a piece up from the
\* pool and releasing it included, every piece id is in the pool or in the placed
\* map and no piece id is in both
C1_PoolPlacedExclusive ==
    \A p \in Pieces : (poolItems[p] > 0) # IsPlaced(placedPieces, p)

\* a pool piece has been picked up and not yet released
C1_PickedUpFromPool ==
    \/ variant = "doc" /\ dragSourceRef = "pool" /\ dragState # Null
    \/ variant = "dnd" /\ dragSource = "pool" /\ active # NoActive

\* every piece of group that is placed before and after moved by the same (dx, dy)
sameShift(group, before, after) ==
    \A a, b \in group :
        (before[a] # NoEntry /\ before[b] # NoEntry /\ after[a] # NoEntry /\ after[b] # NoEntry)
        => /\ after[a].position.x - before[a].position.x
                = after[b].position.x - before[b].position.x
           /\ after[a].position.y - before[a].position.y
                = after[b].position.y - before[b].position.y

\* C2: every move of a drag of a placed connected group shifts every member of the
\* group by the same (dx, dy), so the differences of position between the members
\* are kept by any sequence of drags
C2_RigidGroupTranslation ==
    [][ /\ (\E mouse \in Pointers : CanvasMouseMove(mouse) \/ DocMove(mouse))
            => sameShift(view.dragState.pieceIds, placedPieces, placedPieces')
        /\ (\E over \in Overs, mouse \in Pointers, delta \in Deltas :
                DndDragEnd(over, mouse, delta) /\ view.dragSource = "placed")
            => sameShift(getConnectedGroup(view.placedPieces, CHOOSE id \in active : TRUE),
                         placedPieces, placedPieces') ]_vars

\* a group of two or more placed pieces is being dragged and has been moved
C2_GroupMoved ==
    /\ dragState # Null
    /\ Cardinality({p \in dragState.pieceIds : IsPlaced(placedPieces, p)}) >= 2
    /\ ~Rendered

\* C4: in every reachable state, between the move events of a drag as well as after
\* a release, B is in A.connectedGroup iff A is in B.connectedGroup, for all placed
\* pieces A and B
C4_ConnectedGroupSymmetric ==
    \A a, b \in Pieces :
        (IsPlaced(placedPieces, a) /\ IsPlaced(placedPieces, b))
        => ((b \in placedPieces[a].connectedGroup) <=> (a \in placedPieces[b].connectedGroup))

\* the connectedGroup graph over the placed pieces is one component holding every piece
singleComponent(placed) ==
    /\ \A p \in Pieces : IsPlaced(placed, p)
    /\ \A p \in Pieces : getConnectedGroup(placed, p) = Pieces

\* C5: the puzzle is reported solved iff the pool is empty and the connectedGroup
\* graph over the placed pieces is a single component containing every piece
C5_SolvedIffSingleComponent ==
    Rendered => (isSolved <=> (PoolLength(poolItems) = 0 /\ singleComponent(placedPieces)))

\* the group a release in the 'placed' branch of handleMouseUp / onUp merges, as the
\* handler computes it from its closure ({} when it does not snap)
placedReleaseMerged(ds, closurePlaced) ==
    IF closurePlaced[ds.primary] = NoEntry THEN {}
    ELSE LET snap == checkAndSnapToNeighbors(closurePlaced, ds.primary,
                                             closurePlaced[ds.primary].position, snapThreshold)
         IN  IF snap.shouldSnap /\ snap.neighbors # {}
             THEN ds.pieceIds \cup snap.neighbors ELSE {}

\* the group a drop of pool piece id at position merges ({} when it does not snap)
poolDropMerged(closurePlaced, id, position) ==
    LET snap == checkAndSnapToNeighbors(closurePlaced, id, position, snapThreshold)
    IN  IF snap.shouldSnap /\ snap.neighbors # {} THEN {id} \cup snap.neighbors ELSE {}

\* the group each release merges, from the state before it
CanvasMerged == placedReleaseMerged(view.dragState, view.placedPieces)
DocMerged(mouse) ==
    IF dragSourceRef = "pool"
    THEN IF InsideCanvas(mouse)
         THEN poolDropMerged(view.placedPieces, view.dragState.primary,
                             Pt(mouse.x - view.dragState.offset.x,
                                mouse.y - view.dragState.offset.y))
         ELSE {}
    ELSE placedReleaseMerged(view.dragState, view.placedPieces)
DndMerged(over, mouse, delta) ==
    LET pieceId == CHOOSE id \in active : TRUE
        connectedGroup == getConnectedGroup(view.placedPieces, pieceId)
        newMap == shiftedPieces(placedPieces, connectedGroup, delta)
        cands == groupSnapCandidates(newMap, connectedGroup)
    IN  CASE view.dragSource = "pool" /\ over = "puzzle-canvas" ->
                poolDropMerged(view.placedPieces, pieceId,
                               Pt(mouse.x - halfSize(pieceId).x, mouse.y - halfSize(pieceId).y))
          [] view.dragSource = "placed" /\ cands # {} ->
                connectedGroup \cup walkOutside(newMap, {c[2] : c \in cands}, {}, connectedGroup)
          [] OTHER -> {}

\* a traversal of connectedGroup links from any placed member of M reaches every
\* other placed member
mutuallyReachable(placed, M) ==
    \A a, b \in M :
        (IsPlaced(placed, a) /\ IsPlaced(placed, b)) => b \in getConnectedGroup(placed, a)

\* C3: after a release that snaps, a traversal of connectedGroup links from any
\* member of the merged group (dragged pieces, neighbours within the threshold,
\* members of those neighbours' groups) reaches every other member
C3_SnapMergeTransitive ==
    [][ /\ CanvasMouseUp => mutuallyReachable(placedPieces', CanvasMerged)
        /\ \A mouse \in Pointers :
              DocUp(mouse) => mutuallyReachable(placedPieces', DocMerged(mouse))
        /\ \A over \in Overs, mouse \in Pointers, delta \in Deltas :
              DndDragEnd(over, mouse, delta)
                 => mutuallyReachable(placedPieces', DndMerged(over, mouse, delta)) ]_vars

\* a snap has merged three or more pieces, one of which was in a group before
C3_ThreeMerged ==
    /\ NoDragInProgress
    /\ \E a \in Pieces :
          /\ IsPlaced(placedPieces, a)
          /\ Cardinality(placedPieces[a].connectedGroup) >= 2
          /\ \A b \in placedPieces[a].connectedGroup : IsPlaced(placedPieces, b)

\* every placed piece of M is locked
allLocked(placed, M) == \A m \in M : IsPlaced(placed, m) => placed[m].isLocked

\* C7: after any successful snap every member of the merged group has isLocked =
\* true: the dragged pieces, the neighbours snapped to, the members of their groups
C7_MergedMembersLocked ==
    [][ /\ CanvasMouseUp => allLocked(placedPieces', CanvasMerged)
        /\ \A mouse \in Pointers : DocUp(mouse) => allLocked(placedPieces', DocMerged(mouse))
        /\ \A over \in Overs, mouse \in Pointers, delta \in Deltas :
              DndDragEnd(over, mouse, delta)
                 => allLocked(placedPieces', DndMerged(over, mouse, delta)) ]_vars

\* a piece is in a connected group and not locked, with no drag in progress
C7_MemberNotLocked ==
    /\ NoDragInProgress
    /\ \E a \in Pieces :
          IsPlaced(placedPieces, a) /\ placedPieces[a].connectedGroup # {}
          /\ ~placedPieces[a].isLocked

\* some nearest candidate of cands is the one piece p sits exactly beside in after
sitsAtNearest(before, after, p, position, cands) ==
    \E n \in cands :
        /\ \A c \in cands : distance2(position, expectedPos(before, p, n))
                               <= distance2(position, expectedPos(before, p, c))
        /\ after[p] # NoEntry
        /\ after[p].position = expectedPos(after, p, n)

\* C8, a release of a placed primary piece (handleMouseUp, 'placed' branch of onUp)
placedReleaseExact(ds, before, after) ==
    before[ds.primary] # NoEntry =>
        LET position == before[ds.primary].position
            cands == snapCandidates(before, ds.primary, position, snapThreshold)
        IN  cands # {} => sitsAtNearest(before, after, ds.primary, position, cands)

\* C8, a drop of pool piece id at position
poolDropExact(before, after, id, position) ==
    LET cands == snapCandidates(before, id, position, snapThreshold)
    IN  cands # {} => sitsAtNearest(before, after, id, position, cands)

\* C8, the 'placed' branch of handleDragEnd: some nearest pair <<group piece,
\* neighbour>> is the one the group is aligned to
groupReleaseExact(before, after, connectedGroup, delta) ==
    LET newMap == shiftedPieces(before, connectedGroup, delta)
        cands == groupSnapCandidates(newMap, connectedGroup)
    IN  cands # {} =>
            \E bs \in nearestCandidates(newMap, cands) :
                after[bs[1]].position = expectedPos(after, bs[1], bs[2])

\* C8: when a released piece or group has placed neighbours within snapThreshold of
\* their expected relative position, the candidate at the minimum distance is
\* chosen and the snapping piece ends exactly at
\* neighbor.position + (piece.correctPosition - neighbor.correctPosition)
C8_SnapsExactlyToNearest ==
    [][ /\ \A mouse \in Pointers :
              DocUp(mouse) =>
                 IF dragSourceRef = "pool"
                 THEN InsideCanvas(mouse) =>
                        poolDropExact(placedPieces, placedPieces', view.dragState.primary,
                                      Pt(mouse.x - view.dragState.offset.x,
                                         mouse.y - view.dragState.offset.y))
                 ELSE placedReleaseExact(view.dragState, placedPieces, placedPieces')
        /\ \A over \in Overs, mouse \in Pointers, delta \in Deltas :
              DndDragEnd(over, mouse, delta) =>
                 LET pieceId == CHOOSE id \in active : TRUE
                 IN  CASE view.dragSource = "pool" /\ over = "puzzle-canvas" ->
                             poolDropExact(placedPieces, placedPieces', pieceId,
                                           Pt(mouse.x - halfSize(pieceId).x,
                                              mouse.y - halfSize(pieceId).y))
                       [] view.dragSource = "placed" ->
                             groupReleaseExact(placedPieces, placedPieces',
                                               getConnectedGroup(view.placedPieces, pieceId),
                                               delta)
                       [] OTHER -> TRUE ]_vars


\* the button goes up off the board after a press on a pool piece
releasedOutsideFromPool ==
    /\ pointer.status = "down"
    /\ pointer.source = "pool"
    /\ pointer'.status = "up"
    /\ pointer'.over = "away"

\* after the step the pressed piece is in the pool and not on the board
backInPool ==
    \A id \in pointer.grabbed : poolItems'[id] > 0 /\ ~IsPlaced(placedPieces', id)

\* C17: if a piece picked up from the pool is released outside the board area, then
\* after the release it is in the pool and not in the placed map
C17_PoolPieceReleasedOutsideReturns == [][releasedOutsideFromPool => backInPool]_vars

\* puzzle-triangle and puzzle-random alone, whose release handlers test the drop point
C17_DropTestedReleaseReturns ==
    [][(variant # "canvas" /\ releasedOutsideFromPool) => backInPool]_vars

\* the step is handleReturnToPool(id) of one of the components
returnToPool(id) ==
    \/ CanvasReturnToPool(id)
    \/ DocReturnToPool(id)
    \/ DndReturnToPool(id)
    \/ VoronoiReturnToPool(id)

\* the connected group of a placed piece; part_005 has no groups, a piece is on its own
connectedGroupOf(id) ==
    IF variant = "voronoi" THEN {id} ELSE getConnectedGroup(placedPieces, id) \cup {id}

\* after the step m has no entry in the placed map (so neither isLocked nor
\* connectedGroup) and is in the pool
unplaced(m) == placedPieces'[m] = NoEntry /\ poolItems'[m] > 0

\* C18: returnToPool(p) removes every member of p's connected group from the placed map
\* and adds each of them to the pool, leaving no lock or group data for any of them
C18_ReturnToPoolUnplacesGroup ==
    [][\A id \in Pieces :
          returnToPool(id) => \A m \in connectedGroupOf(id) : unplaced(m)]_vars

\* part_002, puzzle-random and puzzle-triangle alone, which return the whole group
C18_GroupReturnUnplacesGroup ==
    [][\A id \in Pieces :
          (variant # "voronoi" /\ returnToPool(id)) =>
              \A m \in connectedGroupOf(id) : unplaced(m)]_vars

\* the host aborts the gesture in progress
hostAborts == pointer.status = "down" /\ pointer'.status = "aborted"

\* the step changes the component's state as a release at some pointer position does
asReleased ==
    \/ \E over \in Overs, mouse \in Pointers, delta \in Deltas :
           handleDragEnd(over, mouse, delta)
    \/ \E mouse \in Pointers : onUp(mouse)

\* C19: if the host aborts a drag (the pointer leaves the window, a touch is cancelled,
\* or the drag framework cancels the drag), the resulting state is the same as if the
\* dragged pieces had been released at their last known position
C19_AbortIsRelease == [][hostAborts => asReleased]_vars

releasedAfterPress == pointer.status = "down" /\ pointer'.status = "up"

noDragSession ==
    /\ dragState' = Null
    /\ active' = NoActive
    /\ activeId' = NoActive
    /\ dragSource' = NoSource

\* C20: every pointer release that follows a pointer-down on a piece ends the
\* drag session: after the release no drag-session state (dragState, activeId,
\* dragSource) remains, wherever the pointer was when it was released.
C20_ReleaseEndsDragSession == [][releasedAfterPress => noDragSession]_vars

\* the positions of the dragged pieces in a placed map
groupPositions(ds, placed) ==
    [id \in ds.pieceIds |-> IF placed[id] = NoEntry THEN NoEntry ELSE placed[id].position]

\* the drag-move operation is delivered `mouse` once, then a second time before React
\* has rendered: the second call has the closure of the first
deliveredTwice(mouse) ==
    LET once == movedPieces(view.dragState, view.placedPieces, placedPieces, mouse)
    IN  movedPieces(view.dragState, view.placedPieces, once, mouse)

\* the same with a render between the two deliveries: the second call closes over
\* the map the first one produced
deliveredTwiceRendered(mouse) ==
    LET once == movedPieces(view.dragState, view.placedPieces, placedPieces, mouse)
    IN  movedPieces(view.dragState, once, once, mouse)

dragMoveListens == /\ view.dragState # Null
                   /\ variant = "doc" => dragSourceRef # "pool"

\* C21: delivering the same pointer position to the drag-move operation twice in a
\* row, with or without a re-render between the two deliveries, leaves every member
\* of the dragged group at the same position as delivering it once.
C21_DragMoveIdempotent ==
    dragMoveListens /\ variant \in {"canvas", "doc"} =>
        \A mouse \in Pointers :
            LET once == movedPieces(view.dragState, view.placedPieces, placedPieces, mouse)
            IN  /\ groupPositions(view.dragState, deliveredTwice(mouse))
                       = groupPositions(view.dragState, once)
                /\ groupPositions(view.dragState, deliveredTwiceRendered(mouse))
                       = groupPositions(view.dragState, once)

\* the part of C21 with a render between the two deliveries
C21_RenderedDragMoveIdempotent ==
    dragMoveListens /\ variant \in {"canvas", "doc"} =>
        \A mouse \in Pointers :
            groupPositions(view.dragState, deliveredTwiceRendered(mouse))
                = groupPositions(view.dragState,
                                 movedPieces(view.dragState, view.placedPieces, placedPieces, mouse))

\* p is on the board with isLocked set
lockedOnBoard(placed, p) == placed[p] # NoEntry /\ placed[p].isLocked

\* C23: once a placed piece has snapped to a neighbour its isLocked flag stays true for
\* as long as the piece remains on the board; only returning it to the pool clears it.
C23_LockedStaysLockedOnBoard ==
    [][\A p \in Pieces :
          lockedOnBoard(placedPieces, p) /\ placedPieces'[p] # NoEntry
              => placedPieces'[p].isLocked]_vars

\* a and b sit at their correct relative offset
correctlyOffset(placed, a, b) ==
    /\ placed[a].position.x - placed[b].position.x = correctPosition(a).x - correctPosition(b).x
    /\ placed[a].position.y - placed[b].position.y = correctPosition(a).y - correctPosition(b).y

\* C25: in every reachable state with no drag in progress, any two placed pieces in the
\* same connected group sit at exactly their correct relative offset:
\* position(A) - position(B) = correctPosition(A) - correctPosition(B).
C25_GroupMembersCorrectlyOffset ==
    (NoDragInProgress /\ Rendered) =>
        \A a, b \in Pieces :
            (/\ IsPlaced(placedPieces, a)
             /\ IsPlaced(placedPieces, b)
             /\ b \in placedPieces[a].connectedGroup)
                => correctlyOffset(placedPieces, a, b)

\* how many times p appears across the pool array and the placed map
appearances(p) == poolItems[p] + (IF IsPlaced(placedPieces, p) THEN 1 ELSE 0)

\* C26: after any sequence of pointer events, whenever no drag session is active each
\* piece id appears exactly once across the pool and the placed map: no piece is lost
\* or duplicated.
C26_EachPieceExactlyOnce ==
    (NoDragInProgress /\ Rendered /\ activeId = NoActive /\ pointer.status = "up") =>
        \A p \in Pieces : appearances(p) = 1

\* C29: whenever the puzzle is shown as solved, the current state satisfies the
\* variant's completion rule: after pieces are returned to the pool or dragged following
\* completion, the solved flag is true only if the rule still holds.
C29_SolvedFlagMatchesRule ==
    (Rendered /\ isSolved) => completionTest(poolItems, placedPieces)

\* puzzle-random shows the puzzle as solved, no drag in progress
C29_ShownSolved ==
    /\ variant = "doc"
    /\ Rendered
    /\ isSolved
    /\ dragState = Null
    /\ pointer.status # "down"

-----------------------------------------------------------------------------
(* Properties of the exact-slot variants (SpecSlot) *)

\* every slot holds the piece whose correctIndex is the slot's index
everySlotCorrect ==
    \A i \in DOMAIN gridItems :
        gridItems[i] # Empty /\ pieces[gridItems[i]].correctIndex = i

\* C6: in the exact-slot variants the puzzle is reported solved exactly when the pool
\* is empty and every slot holds the piece whose correctIndex equals the slot index
\* (on the 2x2 board: not after one correct placement, and after all four)
C6_SolvedIffPoolEmptyAndSlotsCorrect ==
    variant \in {"jigsaw", "timed"} =>
        (isSolved <=> (PoolLength(poolItems) = 0 /\ everySlotCorrect))

\* the 2x2 board, started with every piece in the pool, has been filled and is solved
C6_FourPlacedSolved ==
    /\ variant \in {"jigsaw", "timed"}
    /\ mode = "full"
    /\ active = NoActive
    /\ isSolved

\* C9: a drop on an exact slot that already holds a piece is rejected: the grid, the
\* pool and every piece's position are the same after the drop as before it
C9_OccupiedSlotDropRejected ==
    [][ /\ \A over \in SlotOvers \ {Null} :
              (/\ variant \in {"jigsaw", "timed"}
               /\ gridItems[over.index] # Empty
               /\ SlotDragEnd(over))
                  => UNCHANGED <<gridItems, poolItems, pieces>>
        /\ \A over \in StoreOvers \ {Null} :
              (/\ variant = "store"
               /\ \E p \in DOMAIN pieces :
                     pieces[p].currentPosition = Pt(split(over)[2], split(over)[1])
               /\ StoreDragEnd(over))
                  => UNCHANGED <<gridItems, poolItems, pieces>> ]_vars

\* a piece has just been dropped on a slot that holds a piece, and was turned away
C9_DropOnOccupiedSlot ==
    /\ variant = "jigsaw"
    /\ notice = "Slot sudah terisi!"
    /\ active = NoActive
    /\ \E i \in DOMAIN gridItems : gridItems[i] # Empty

\* the active piece is dropped on the grid cell at (row, col), its own correct cell
droppedOnOwnCell(row, col) ==
    /\ variant = "store"
    /\ active # NoActive
    /\ pieces[CHOOSE id \in active : TRUE].correctPosition = Pt(col, row)
    /\ StoreDragEnd(dropzoneId(row, col))

\* C28: in the store-backed grid variant a drop on the grid cell at (row, col) is
\* evaluated against the target position {x: col, y: row}, so a piece dropped on its own
\* correct cell is placed there (and dropping every piece on its correct cell completes
\* the puzzle).
C28_DropOnOwnCellPlaces ==
    [][\A row, col \in 0 .. gridSize - 1 :
          droppedOnOwnCell(row, col) =>
              /\ pieces'[CHOOSE id \in active : TRUE].currentPosition = Pt(col, row)
              /\ isCompleted' = checkCompletion(pieces')]_vars

-----------------------------------------------------------------------------
(* Properties of the configuration lookup (SpecConfig) *)

\* the piece counts the mounted component has a grid for
validPieceCounts ==
    CASE variant = "dnd" -> DOMAIN mapping
      [] variant = "doc" -> {gridMap[i].pieces : i \in DOMAIN gridMap}
      [] OTHER -> DOMAIN PIECE_CONFIGURATIONS

\* C10: requesting a piece count that has no grid mapping makes puzzle creation fail
\* with a configuration error that names the valid piece counts
C10_UnmappedCountIsConfigurationError ==
    (config # Null /\ pieceCount \notin validPieceCounts) =>
        /\ "error" \in DOMAIN config
        /\ config.available = sorted(validPieceCounts)

\* part_003 alone: its createTrianglePuzzle throws and names AVAILABLE_PIECE_COUNTS
C10_CanvasUnmappedCountIsError ==
    (variant = "canvas" /\ config # Null /\ pieceCount \notin validPieceCounts) =>
        /\ "error" \in DOMAIN config
        /\ config.available = sorted(validPieceCounts)

-----------------------------------------------------------------------------
(* Properties of the partition and the adjacency resolver (SpecPartition) *)

\* piece a records piece b under edge key k
recordsUnder(a, b, k) == k \in DOMAIN a.neighbors /\ a.neighbors[k] = b.id

\* C11: for all pieces A and B, A.neighbors maps some edge key to B if and only if
\* B.neighbors maps that same edge key to A
C11_AdjacencySymmetricUnderSameKey ==
    \A i, j \in 1 .. Len(pieces) :
        \A k \in DOMAIN pieces[i].neighbors \cup DOMAIN pieces[j].neighbors :
            recordsUnder(pieces[i], pieces[j], k) <=> recordsUnder(pieces[j], pieces[i], k)

\* the corners, midpoints and interior points of the grids are whole sixths of a pixel:
\* areas are measured in that unit, in which the products stay below 2^31
sixths(u) == u \div (Unit \div 6)

\* (a - o) x (b - o)
cross(o, a, b) ==
    sixths(a.x - o.x) * sixths(b.y - o.y) - sixths(a.y - o.y) * sixths(b.x - o.x)

\* twice the area of a triangle
area2(t) == Abs(cross(t[1], t[2], t[3]))

RECURSIVE sumArea2(_, _)
sumArea2(ps, n) == IF n = 0 THEN 0 ELSE area2(ps[n].polygon) + sumArea2(ps, n - 1)

\* the line through an edge of s has the rest of s strictly on one side and no point
\* of t strictly on that side
separatedBy(s, t) ==
    \E e \in {<<1, 2, 3>>, <<2, 3, 1>>, <<3, 1, 2>>} :
        LET side == cross(s[e[1]], s[e[2]], s[e[3]])
        IN  \A i \in 1 .. 3 :
                IF side > 0 THEN cross(s[e[1]], s[e[2]], t[i]) <= 0
                            ELSE cross(s[e[1]], s[e[2]], t[i]) >= 0

\* two triangles have an interior point in common
interiorsOverlap(s, t) ==
    /\ area2(s) > 0
    /\ area2(t) > 0
    /\ ~separatedBy(s, t)
    /\ ~separatedBy(t, s)

\* the piece counts a component documents a grid for; part_002 takes a grid, any will do
supportedSpec ==
    CASE variant = "dnd" -> pieceCount \in DOMAIN mapping
      [] variant = "doc" -> pieceCount \in {gridMap[i].pieces : i \in DOMAIN gridMap}
      [] variant = "shapes" -> pieceCount \in DOMAIN PIECE_CONFIGURATIONS
      [] OTHER -> TRUE

\* the load effect has resolved with pieces
partitioned == pieces # <<>>

\* twice the area of the source rectangle, as scaled for the board
sourceArea2 ==
    2 * sixths(scaledSize(variant, image).width) * sixths(scaledSize(variant, image).height)

coversSource == Abs(sumArea2(pieces, Len(pieces)) - sourceArea2) <= 2 * 6 * 6

noInteriorOverlap ==
    \A i, j \in 1 .. Len(pieces) :
        i < j => ~interiorsOverlap(pieces[i].polygon, pieces[j].polygon)

\* C12: for every supported grid and piece-count specification, the areas of the
\* returned polygons sum to the area of the source rectangle and no two returned
\* polygons overlap in their interiors
C12_PartitionCoversWithoutOverlap ==
    (partitioned /\ supportedSpec) => (coversSource /\ noInteriorOverlap)

\* the grid the component cuts the image by, once it has one
hasGrid == partitioned /\ "rows" \in DOMAIN config

\* C13: for every cell (row, col), every triangle returned by the triangular split of
\* that cell has nonzero area
C13_EveryTriangleHasArea ==
    hasGrid =>
        \A row \in 0 .. config.rows - 1 : \A col \in 0 .. config.cols - 1 :
            LET ts == cellTriangles(variant, scaledSize(variant, image), config, row, col)
            IN  \A i \in 1 .. Len(ts) : area2(ts[i]) > 0

\* puzzle-random alone: its interior point lies strictly inside the cell
C13_FanTrianglesHaveArea == variant = "doc" => C13_EveryTriangleHasArea

\* the component takes a piece count, and the count is one it documents a grid for
offeredCount == variant # "canvas" /\ supportedSpec

\* C14: for every piece count offered as a valid configuration, the partitioner returns
\* exactly that many pieces
C14_ReturnsOfferedPieceCount ==
    (config # Null /\ offeredCount) => Len(pieces) = pieceCount

\* puzzle-random and puzzle-triangle alone: every grid entry holds pieces = cells * 4
\* (cells * 2) and nothing is trimmed
C14_GridEntriesAreExact == variant # "shapes" => C14_ReturnsOfferedPieceCount

\* the number of vertices of triangle s that are vertices of triangle t
coincidingVertices(s, t) ==
    Cardinality({a \in 1 .. Len(s) : \E b \in 1 .. Len(t) : s[a] = t[b]})

\* piece a holds piece b in its neighbors object
recorded(a, b) == \E k \in DOMAIN a.neighbors : a.neighbors[k] = b.id

\* C15: two pieces whose polygons coincide in only one vertex are never recorded as
\* neighbors of each other; a neighbor link requires at least two coinciding vertices
C15_NeighborsShareTwoVertices ==
    \A i, j \in 1 .. Len(pieces) :
        (i # j /\ recorded(pieces[i], pieces[j])) =>
            coincidingVertices(pieces[i].polygon, pieces[j].polygon) >= 2

\* a built puzzle holds two pieces that touch in exactly one vertex, and holds links
C15_CornerTouchUnlinked ==
    /\ partitioned
    /\ \E i, j \in 1 .. Len(pieces) :
        /\ i # j
        /\ coincidingVertices(pieces[i].polygon, pieces[j].polygon) = 1
        /\ ~recorded(pieces[i], pieces[j])
    /\ \E i, j \in 1 .. Len(pieces) : i # j /\ recorded(pieces[i], pieces[j])

\* the indices of the pieces reached from those in `seen` along recorded links, either way
RECURSIVE linkedFrom(_)
linkedFrom(seen) ==
    LET more == {j \in 1 .. Len(pieces) :
                    \E i \in seen : recorded(pieces[i], pieces[j]) \/ recorded(pieces[j], pieces[i])}
    IN  IF more \subseteq seen THEN seen ELSE linkedFrom(seen \cup more)

neighborGraphConnected == linkedFrom({1}) = 1 .. Len(pieces)

\* C27: for every supported piece count, the neighbour graph produced by the adjacency
\* resolver over the returned pieces is connected, so that all pieces can be joined
\* into one connected group.
C27_NeighborGraphConnected ==
    (variant = "shapes" /\ partitioned /\ supportedSpec) => neighborGraphConnected

-----------------------------------------------------------------------------
(* Properties of the tab/slot outlines (SpecTabs) *)

\* the points a path command draws through
commandPoints(c) == IF c.op = "C" THEN {c.c1, c.c2, c.to} ELSE {c.to}

pathPoints(path) == UNION {commandPoints(path[i]) : i \in 1 .. Len(path)}

\* how far the outline of piece p leaves its rectangle across the given side (positive:
\* outwards), measured over the middle band of that side
excursions(p, side) ==
    LET w == p.baseWidth
        h == p.baseHeight
        pts == pathPoints(p.clip)
        acrossBand == {q \in pts : 100 * q.x >= 35 * w /\ 100 * q.x <= 65 * w}
        alongBand == {q \in pts : 100 * q.y >= 35 * h /\ 100 * q.y <= 65 * h}
    IN  CASE side = "top" -> {-q.y : q \in {r \in acrossBand : 2 * r.y < h}}
          [] side = "bottom" -> {q.y - h : q \in {r \in acrossBand : 2 * r.y > h}}
          [] side = "left" -> {-q.x : q \in {r \in alongBand : 2 * r.x < w}}
          [] OTHER -> {q.x - w : q \in {r \in alongBand : 2 * r.x > w}}

\* "tab": the outline bulges out of the rectangle; "slot": it dents into it
shapeOf(p, side) ==
    LET e == excursions(p, side)
    IN  IF \E v \in e : v > 0 THEN (IF \E v \in e : v < 0 THEN "both" ELSE "tab")
        ELSE IF \E v \in e : v < 0 THEN "slot" ELSE "straight"

complementary(a, b) == {a, b} = {"tab", "slot"}

pieceAt(row, col) == pieces[row * config.cols + col + 1]

\* C16: for every interior edge of a rows x cols tab/slot grid, exactly one of the two
\* pieces sharing the edge has a tab on it and the other has a slot, and every piece
\* edge on the grid boundary is straight
C16_TabsComplementaryBordersStraight ==
    pieces # <<>> =>
        \A row \in 0 .. config.rows - 1 : \A col \in 0 .. config.cols - 1 :
            /\ row > 0 => complementary(shapeOf(pieceAt(row - 1, col), "bottom"),
                                        shapeOf(pieceAt(row, col), "top"))
            /\ col > 0 => complementary(shapeOf(pieceAt(row, col - 1), "right"),
                                        shapeOf(pieceAt(row, col), "left"))
            /\ row = 0 => shapeOf(pieceAt(row, col), "top") = "straight"
            /\ row = config.rows - 1 => shapeOf(pieceAt(row, col), "bottom") = "straight"
            /\ col = 0 => shapeOf(pieceAt(row, col), "left") = "straight"
            /\ col = config.cols - 1 => shapeOf(pieceAt(row, col), "right") = "straight"

\* a split grid with interior edges in both directions, one carrying a tab downwards and
\* one a tab upwards
C16_GridWithTabsBothWays ==
    /\ pieces # <<>>
    /\ config.rows >= 2
    /\ config.cols >= 2
    /\ shapeOf(pieceAt(0, 0), "bottom") = "slot"
    /\ shapeOf(pieceAt(1, 0), "top") = "tab"
    /\ shapeOf(pieceAt(0, 0), "right") = "tab"
    /\ shapeOf(pieceAt(0, 1), "bottom") = "tab"

-----------------------------------------------------------------------------
(* Properties of the store (SpecStore) *)

checkCompletionCalled == \E bonus \in TimeBonuses : StoreCheckCompletion(bonus)

\* C22: evaluating the completion check changes no state: a call of checkCompletion
\* leaves the pieces, the pool, the score and the flags as they were (so that a second
\* call with no placement in between gives the same answer).
C22_CompletionCheckChangesNothing ==
    [][checkCompletionCalled =>
          UNCHANGED <<pieces, poolItems, score, attempts, isCompleted, isSolved>>]_vars

-----------------------------------------------------------------------------
(* Properties of the adjacency resolver on displaced polygons (SpecResolve) *)

\* setupNeighbors has run
resolved == gestures = 1

\* b is a away by 0.05 px: by that much along one axis at least, by no more along either
offByTwentieth(a, b) ==
    /\ Abs(a.x - b.x) <= twentieth
    /\ Abs(a.y - b.y) <= twentieth
    /\ Abs(a.x - b.x) = twentieth \/ Abs(a.y - b.y) = twentieth

\* two vertices of s each have their counterpart in t 0.05 px away
sharesDisplacedEdge(s, t) ==
    Cardinality({a \in 1 .. Len(s) : \E b \in 1 .. Len(t) : offByTwentieth(s[a], t[b])}) >= 2

\* C24: two pieces that share an edge whose corresponding vertices differ by 0.05 units
\* are resolved as neighbours of each other (the tolerances in use are 0.1 and 1.0).
C24_DisplacedEdgeStillNeighbors ==
    resolved =>
        \A i, j \in 1 .. Len(pieces) :
            (i # j /\ sharesDisplacedEdge(pieces[i].polygon, pieces[j].polygon)) =>
                recorded(pieces[i], pieces[j]) /\ recorded(pieces[j], pieces[i])

\* resolved with the tolerance of 0.1: a pair 0.05 px apart is there and linked both ways
C24_DisplacedPairLinked ==
    /\ resolved
    /\ variant = "dnd"
    /\ \E i, j \in 1 .. Len(pieces) :
        /\ i # j
        /\ sharesDisplacedEdge(pieces[i].polygon, pieces[j].polygon)
        /\ recorded(pieces[i], pieces[j])
        /\ recorded(pieces[j], pieces[i])

-----------------------------------------------------------------------------
(* Properties of the timed variants (SpecTimed) *)

\* the squares of the board and the pieces lying on it
boardUnchanged == gridItems' = gridItems /\ placedPieces' = placedPieces

\* C30: in the timed variants isSolved and isGameOver are never both true: once the
\* countdown has reached zero no drop changes the board, and once the puzzle is solved
\* the countdown never expires.
C30_SolvedAndGameOverExclusive ==
    [][ /\ ~(isSolved' /\ isGameOver')
        /\ (isGameOver => boardUnchanged)
        /\ (isSolved => isGameOver' = isGameOver) ]_vars

=============================================================================
